---- MODULE Spec2Model ----
(***************************************************************************)
(* Cache and data-loading layer of the NganwitPTK27 front end:             *)
(* GLOBAL_CACHE, DataService (pre-load, localStorage mirror, JSONP         *)
(* fetches), CompetitionManager (initialize / refresh / fallback) and the  *)
(* MainApp.loadData entry point.                                           *)
(*                                                                         *)
(* Execution model: one JavaScript thread.  A handler runs to completion   *)
(* (synchronous code and the micro-tasks it queues); `running` names the   *)
(* call whose code is on the stack, and network callbacks, timers, clock   *)
(* ticks and page reloads happen only while running = 0.                   *)
(***************************************************************************)
EXTENDS Integers, Sequences, FiniteSets, TLC

VARIABLES
  now,           \* Date.now()
  GLOBAL_CACHE,  \* part_000:6-12
  localStorage,  \* the two durable keys PERSIST_KEY / VERSION_KEY
  ds,            \* DataService fields: isPreloading, cache
  mgr,           \* CompetitionManager fields
  calls,         \* activation records of loadData / initialize / refresh
  ncalls,        \* number of calls started so far
  running,       \* call whose synchronous code is executing, 0 = event loop idle
  reloads,       \* page loads so far
  remote,        \* the catalogues the two endpoints serve
  cleared,       \* history: "removed" / "failed" (the removal threw) once the caches
                 \* were cleared and nothing was stored since, else "no"
  window,        \* the JSONP callbacks registered as window[callbackName]
  head,          \* the JSONP script elements attached to document.head
  requests,      \* the simpleJSONP() calls made so far and their promises
  retry,         \* activation record of DataService.request()
  rawResults,    \* the payload handed to processResults
  processed,     \* what processResults returned
  tableResults,  \* this.results of ResultsApp
  tbody,         \* what createTableBody returned
  lr             \* activation record and history of CompetitionManager.loadResults()

\* the state of the page life cycle, apart from the clock
page == <<GLOBAL_CACHE, localStorage, ds, mgr, calls, ncalls, running, reloads,
          remote, cleared>>

\* the state of the JSONP transport
jsonpVars == <<window, head, requests>>

\* the state of request()
retryVars == <<retry>>

\* the state of processResults()
resultVars == <<rawResults, processed>>

\* the state of createTableBody()
tableVars == <<tableResults, tbody>>

\* the state of loadResults()
loadVars == <<lr>>

\* what the page life cycle leaves alone
side == <<jsonpVars, retryVars, resultVars, tableVars, loadVars>>

\* what the JSONP transport leaves alone, apart from the clock
besidesJsonp == <<page, retryVars, resultVars, tableVars, loadVars>>

\* what request() leaves alone, apart from the clock
besidesRetry == <<page, jsonpVars, resultVars, tableVars, loadVars>>

\* what processResults() leaves alone, apart from the clock
besidesResults == <<page, jsonpVars, retryVars, tableVars, loadVars>>

\* what createTableBody() leaves alone, apart from the clock
besidesTable == <<page, jsonpVars, retryVars, resultVars, loadVars>>

\* the side state a page load leaves alone: it drops a pending loadResults()
otherSides == <<jsonpVars, retryVars, resultVars, tableVars>>

\* what loadResults() leaves alone of the side state
besidesLoad == otherSides

vars == <<now, page, side>>

-----------------------------------------------------------------------------
(* Bounds of the model *)

MaxCalls == 2      \* calls started in one run
MaxReloads == 1    \* page reloads
T0 == 5            \* Date.now() when the first page is loaded

(* Program constants *)

CACHE_TIMEOUT == 3600000      \* CONFIG.CACHE.TIMEOUT
NullStamp == 0                \* lastUpdated: null (falsy, like 0)

APP_VERSION == "2.0.0"
OLD_VERSION == "1.0.0"

SCIENCE_LOAD_FAILED == "SCIENCE_LOAD_FAILED"
GEM_LOAD_FAILED == "GEM_LOAD_FAILED"
NullErr == "null"
EmptyObject == "{}"

Categories == {"science", "gem"}

(* The instants at which the clock is observed: ages 0, TTL-1, TTL, TTL+1 *)
Instants == {T0, T0 + CACHE_TIMEOUT - 1, T0 + CACHE_TIMEOUT, T0 + CACHE_TIMEOUT + 1}

-----------------------------------------------------------------------------
(* What the remote endpoints can answer *)

s1 == [id |-> "s1", name |-> "Rocket", category |-> "science"]
g1 == [id |-> "g1 ", name |-> "Essay", category |-> "gem"]
g2 == [id |-> "g2", name |-> "", category |-> "gem"]
sBlank == [id |-> " ", name |-> "Quiz", category |-> "science"]

rowA == [school |-> "Alpha", award |-> "champion", rank |-> 1]
rowB == [school |-> "Beta", award |-> "", rank |-> 2]

\* the sheets behind the two endpoints; they do not change during a run
Remotes ==
  {[science |-> <<>>, gem |-> <<g1, g2>>],
   [science |-> <<s1>>, gem |-> <<g1>>],
   [science |-> <<sBlank>>, gem |-> <<>>],
   [science |-> <<>>, gem |-> <<>>]}

\* the positions a competition can have in allCompetitions
Indices == UNION {1..(Len(r.science) + Len(r.gem)) : r \in Remotes}

\* the result sheet served for a competition id
RemoteResults(id) ==
  IF id = "s1" THEN <<rowA>>
  ELSE IF id = "g1 " THEN <<rowB, rowA>>
  ELSE <<rowB>>

\* the ways a simpleJSONP request can fail
FailureKinds == {"timeout", "network", "remote"}

EmptyMap == [k \in {} |-> <<>>]

MapSet(m, k, v) == [x \in (DOMAIN m) \cup {k} |-> IF x = k THEN v ELSE m[x]]

\* String.prototype.trim on the strings of the model
Trim(s) == IF s = "g1 " THEN "g1" ELSE IF s = " " THEN "" ELSE s

-----------------------------------------------------------------------------
(* part_000: cache helpers *)

EmptyCache ==
  [competitions |-> <<>>, results |-> EmptyMap, lastUpdated |-> NullStamp,
   isLoaded |-> FALSE]

\* variant: the comparison with the TTL is turned around
isCacheValidReversed(gc, t) ==
  /\ gc.isLoaded
  /\ gc.lastUpdated # NullStamp
  /\ (t - gc.lastUpdated) > CACHE_TIMEOUT

\* variant: an age of exactly the TTL still counts as valid
isCacheValidInclusive(gc, t) ==
  /\ gc.isLoaded
  /\ gc.lastUpdated # NullStamp
  /\ (t - gc.lastUpdated) <= CACHE_TIMEOUT

isCacheValid(gc, t) ==
  /\ gc.isLoaded
  /\ gc.lastUpdated # NullStamp
  /\ (t - gc.lastUpdated) < CACHE_TIMEOUT

\* variant: the timestamp survives the clear
clearGlobalCacheKeepsStamp(gc) ==
  [competitions |-> <<>>, results |-> EmptyMap, lastUpdated |-> gc.lastUpdated,
   isLoaded |-> FALSE]

\* variant: the loaded flag survives the clear
clearGlobalCacheKeepsLoaded(gc) ==
  [competitions |-> <<>>, results |-> EmptyMap, lastUpdated |-> NullStamp,
   isLoaded |-> gc.isLoaded]

clearGlobalCache(gc) ==
  [competitions |-> <<>>, results |-> EmptyMap, lastUpdated |-> NullStamp,
   isLoaded |-> FALSE]

(* DataService.isCacheReady *)
isCacheReady(gc, t) == gc.isLoaded /\ isCacheValid(gc, t)

-----------------------------------------------------------------------------
(* JSON.stringify / JSON.parse on the cache blob.  An Error object has no   *)
(* enumerable own property, so JSON.stringify writes it as {}.              *)

JSONError(e) == IF e = NullErr THEN NullErr ELSE EmptyObject

JSONCompetitions(c) ==
  IF c = <<>> THEN <<>>
  ELSE << [science |-> c[1].science, gem |-> c[1].gem,
           errors |-> [science |-> JSONError(c[1].errors.science),
                       gem |-> JSONError(c[1].errors.gem)]] >>

JSONStringify(cacheData) ==
  [competitions |-> JSONCompetitions(cacheData.competitions),
   results |-> cacheData.results,
   lastUpdated |-> cacheData.lastUpdated,
   version |-> cacheData.version]

\* what an earlier release of the site left under PERSIST_KEY
OldBlob ==
  [competitions |-> <<>>, results |-> EmptyMap,
   lastUpdated |-> T0, version |-> OLD_VERSION]

NoStorage == [persist |-> <<>>, version |-> <<>>]

(* DataService.saveToLocalStorage; written = FALSE when setItem throws (the
   quota is exceeded, storage is disabled) *)
saveToLocalStorage(gc, store, written) ==
  LET cacheData == [competitions |-> gc.competitions, results |-> gc.results,
                    lastUpdated |-> gc.lastUpdated, version |-> APP_VERSION]
      blob == JSONStringify(cacheData)
  IN IF written THEN [persist |-> <<blob>>, version |-> <<APP_VERSION>>]
     ELSE store

\* variant: the version tag is not compared
loadFromLocalStorageAnyVersion(store, gc, t, readable) ==
  IF ~readable THEN [ret |-> FALSE, cache |-> gc]
  ELSE IF store.persist = <<>>
    THEN [ret |-> FALSE, cache |-> gc]
  ELSE LET data == store.persist[1] IN
    IF data.lastUpdated = NullStamp \/ (t - data.lastUpdated) > CACHE_TIMEOUT
      THEN [ret |-> FALSE, cache |-> gc]
    ELSE [ret |-> TRUE,
          cache |-> [competitions |-> data.competitions,
                     results |-> data.results,
                     lastUpdated |-> data.lastUpdated,
                     isLoaded |-> TRUE]]

(* DataService.loadFromLocalStorage; readable = FALSE when getItem or
   JSON.parse throws *)
loadFromLocalStorage(store, gc, t, readable) ==
  IF ~readable THEN [ret |-> FALSE, cache |-> gc]
  ELSE IF store.persist = <<>> \/ store.version # <<APP_VERSION>>
    THEN [ret |-> FALSE, cache |-> gc]
  ELSE LET data == store.persist[1] IN
    IF data.lastUpdated = NullStamp \/ (t - data.lastUpdated) > CACHE_TIMEOUT
      THEN [ret |-> FALSE, cache |-> gc]
    ELSE [ret |-> TRUE,
          cache |-> [competitions |-> data.competitions,
                     results |-> data.results,
                     lastUpdated |-> data.lastUpdated,
                     isLoaded |-> TRUE]]

-----------------------------------------------------------------------------
(* CompetitionManager: validation and normalisation of the catalogue *)

validateCompetition(competition) ==
  /\ competition.id # ""
  /\ competition.name # ""

normalizeCompetition(competition, idx, category) ==
  [id |-> Trim(competition.id),
   name |-> Trim(competition.name),
   category |-> category,
   orderIndex |-> idx]

RECURSIVE FilterValid(_)
FilterValid(raw) ==
  IF raw = <<>> THEN <<>>
  ELSE IF validateCompetition(Head(raw))
       THEN <<Head(raw)>> \o FilterValid(Tail(raw))
       ELSE FilterValid(Tail(raw))

processCompetitions(rawCompetitions, category) ==
  LET kept == FilterValid(rawCompetitions)
  IN [i \in 1..Len(kept) |-> normalizeCompetition(kept[i], i - 1, category)]

NoErrors == [science |-> NullErr, gem |-> NullErr]

NewManager ==
  [science |-> <<>>, gem |-> <<>>, all |-> <<>>, errors |-> NoErrors,
   results |-> EmptyMap,       \* this.results, part_001:16
   isLoading |-> FALSE, isInitialized |-> FALSE]

\* the assignments of loadFromGlobalCache / loadAllCompetitions
WithCompetitions(m, competitions) ==
  LET sci == processCompetitions(competitions.science, "science")
      gem == processCompetitions(competitions.gem, "gem")
  IN [m EXCEPT !.science = sci, !.gem = gem, !.all = sci \o gem,
               !.errors = competitions.errors]

(* CompetitionManager.loadFromGlobalCache: threw = TRUE when the cache is not ready *)
loadFromGlobalCache(gc, m) ==
  IF ~gc.isLoaded \/ gc.competitions = <<>>
    THEN [threw |-> TRUE, mgr |-> m]
    ELSE [threw |-> FALSE, mgr |-> WithCompetitions(m, gc.competitions[1])]

getAllCompetitions(m) == m.all

(* CompetitionManager.getStatistics, the counts MainApp reads *)
getStatistics(m) ==
  [total |-> Len(m.all), science |-> Len(m.science), gem |-> Len(m.gem)]

\* variant: a category without competitions is reported as a failed load
handleLoadingResultsStrict(stats, errors) ==
  LET hasScience == stats.science > 0
      hasGem == stats.gem > 0
      hasErrors == errors.science # NullErr \/ errors.gem # NullErr
  IN IF hasScience /\ hasGem THEN "success"
     ELSE IF hasScience \/ hasGem \/ hasErrors THEN "error"
     ELSE "info"

(* MainApp.handleLoadingResults: the message it shows *)
handleLoadingResults(stats, errors) ==
  LET hasScience == stats.science > 0
      hasGem == stats.gem > 0
      hasErrors == errors.science # NullErr \/ errors.gem # NullErr
  IN IF hasScience /\ hasGem THEN "success"
     ELSE IF hasScience \/ hasGem THEN "warning"
     ELSE IF hasErrors THEN "error"
     ELSE "info"

(* MainApp.renderCompetitions: per category, the error state or the list *)
renderCompetitions(m) ==
  [science |-> IF m.errors.science # NullErr THEN "error-state" ELSE "list",
   gem |-> IF m.errors.gem # NullErr THEN "error-state" ELSE "list"]

-----------------------------------------------------------------------------
(* DataService.fetchAllCompetitions: the object built from the two settled
   promises of Promise.allSettled *)

PendingSlot == [st |-> "pending", data |-> <<>>, err |-> NullErr]
NoSlot == [st |-> "none", data |-> <<>>, err |-> NullErr]

\* fetchScienceCompetitions / fetchGemCompetitions: any failure of the
\* request is rethrown as the category's own message
CategoryFailure(category) ==
  IF category = "science" THEN SCIENCE_LOAD_FAILED ELSE GEM_LOAD_FAILED

\* variant: Promise.all instead of Promise.allSettled, one failure fails both
fetchAllCompetitionsTogether(science, gem) ==
  LET ok == science.st = "fulfilled" /\ gem.st = "fulfilled"
  IN [science |-> IF ok THEN science.data ELSE <<>>,
      gem |-> IF ok THEN gem.data ELSE <<>>,
      errors |-> [science |-> IF ok THEN NullErr ELSE SCIENCE_LOAD_FAILED,
                  gem |-> IF ok THEN NullErr ELSE GEM_LOAD_FAILED]]

fetchAllCompetitions(science, gem) ==
  [science |-> IF science.st = "fulfilled" THEN science.data ELSE <<>>,
   gem |-> IF gem.st = "fulfilled" THEN gem.data ELSE <<>>,
   errors |-> [science |-> IF science.st = "rejected" THEN science.err ELSE NullErr,
               gem |-> IF gem.st = "rejected" THEN gem.err ELSE NullErr]]

-----------------------------------------------------------------------------
(* DataService.cache (the per-instance Map) *)

\* getFromCache: the entry's data when it is younger than cacheTimeout
CacheHit(cache, key, t) ==
  /\ key \in DOMAIN cache
  /\ (t - cache[key].timestamp) < CACHE_TIMEOUT

\* getFromCache deletes the entry it does not return
getFromCache(cache, key, t) ==
  IF CacheHit(cache, key, t)
    THEN [hit |-> TRUE, data |-> cache[key].data, cache |-> cache]
    ELSE [hit |-> FALSE, data |-> <<>>,
          cache |-> [k \in (DOMAIN cache) \ {key} |-> cache[k]]]

setCache(cache, key, data, t) ==
  MapSet(cache, key, [data |-> data, timestamp |-> t])

NewDataService == [isPreloading |-> FALSE, cache |-> EmptyMap]

-----------------------------------------------------------------------------
(* Activation records *)

NoSummary == [total |-> 0, loaded |-> 0, failed |-> 0]

NewCall ==
  [kind |-> "none", pc |-> "idle",
   ldBranch |-> "",            \* which branch of MainApp.loadData was taken
   path |-> "",                \* which branch of initialize was taken
   science |-> NoSlot, gem |-> NoSlot,   \* the two promises of allSettled
   competitions |-> <<>>,      \* result of fetchAllCompetitions
   allCompetitions |-> <<>>,   \* preloadAllData local
   allResults |-> EmptyMap,    \* preloadAllData local
   resSt |-> <<>>,             \* per index: "timer", "pending", "ok", "failed"
   dsRet |-> "",               \* how DataService.preloadAllData ended
   summary |-> NoSummary,
   threw |-> FALSE,
   \* history of the call
   cacheOk |-> "", restoreOk |-> "", restoreWhy |-> "",
   before |-> EmptyCache,      \* GLOBAL_CACHE when loadFromLocalStorage was entered
   reads |-> 0,                \* durable-storage reads made by initialize
   catReqs |-> 0, resReqs |-> 0, preloads |-> 0,
   inSuccession |-> FALSE, startAt |-> 0,
   afterClear |-> "no",        \* `cleared` when the call started
   saved |-> FALSE,            \* the last saveToLocalStorage wrote both keys
   leftLoaded |-> FALSE, leftStamp |-> NullStamp,  \* GLOBAL_CACHE at the end
   shown |-> <<>>]               \* what MainApp.loadData put on the page

Calls == 1..MaxCalls

Done(c) == calls[c].pc = "done"

Slot(call, category) == IF category = "science" THEN call.science ELSE call.gem

SetSlot(call, category, slot) ==
  IF category = "science" THEN [call EXCEPT !.science = slot]
  ELSE [call EXCEPT !.gem = slot]

AllSettled(resSt) == \A i \in 1..Len(resSt) : resSt[i] \in {"ok", "failed"}

InitialStorage ==
  {NoStorage, [persist |-> <<OldBlob>>, version |-> <<OLD_VERSION>>]}

\* no JSONP request was made
JsonpIdle ==
  /\ window = EmptyMap
  /\ head = {}
  /\ requests = <<>>

\* request() was not called
RetryIdle ==
  retry = [pc |-> "idle", attempt |-> 0, lastError |-> NullErr, result |-> NullErr,
           wakeAt |-> 0, made |-> <<>>, slept |-> <<>>]

\* processResults() was not called
ResultsIdle ==
  /\ rawResults = [isArray |-> TRUE, items |-> <<>>]
  /\ processed = [done |-> FALSE, list |-> <<>>]

\* createTableBody() was not called
TableIdle ==
  /\ tableResults = <<>>
  /\ tbody = [done |-> FALSE, children |-> <<>>]

\* loadResults() was not called
LoadIdle == lr = [pc |-> "idle", id |-> "", calls |-> 0, ended |-> 0, last |-> <<>>]

SideIdle ==
  /\ JsonpIdle
  /\ RetryIdle
  /\ ResultsIdle
  /\ TableIdle
  /\ LoadIdle

Init ==
  /\ now = T0
  /\ GLOBAL_CACHE = EmptyCache
  /\ localStorage \in InitialStorage
  /\ ds = NewDataService
  /\ mgr = NewManager
  /\ calls = [c \in Calls |-> NewCall]
  /\ ncalls = 0
  /\ running = 0
  /\ reloads = 0
  /\ remote \in Remotes
  /\ cleared = "no"
  /\ SideIdle

\* the end of initialize()/refresh(): control returns to MainApp.loadData or
\* to the caller of the manager
Return(call) ==
  IF call.kind = "loadData" THEN [call EXCEPT !.pc = "ld_after"]
  ELSE [call EXCEPT !.pc = "in_end"]

\* a finished activation: its locals are gone; what stays is what the next
\* call's properties refer to
Finished(call) ==
  [NewCall EXCEPT !.kind = call.kind, !.pc = "done",
                  !.preloads = call.preloads, !.startAt = call.startAt,
                  !.leftLoaded = GLOBAL_CACHE.isLoaded,
                  !.leftStamp = GLOBAL_CACHE.lastUpdated]

Begin(kind, pc) ==
  [NewCall EXCEPT !.kind = kind, !.pc = pc, !.startAt = now,
                  !.afterClear = cleared,
                  !.inSuccession = ncalls > 0 /\ \A d \in 1..ncalls : Done(d)]

-----------------------------------------------------------------------------
(* MainApp.loadData (main.js:130-181) *)

\* main.js:133: the cache check that opens loadData
StartLoadData ==
  /\ running = 0
  /\ ncalls < MaxCalls
  /\ LET c == ncalls + 1
         ready == isCacheReady(GLOBAL_CACHE, now)
         call == Begin("loadData", IF ready THEN "in_begin" ELSE "ld_restore")
     IN /\ calls' = [calls EXCEPT ![c] =
                       [call EXCEPT !.ldBranch = IF ready THEN "cache" ELSE ""]]
        /\ ncalls' = c
        /\ running' = c
  /\ UNCHANGED <<now, GLOBAL_CACHE, localStorage, ds, mgr, reloads, remote, cleared>>
  /\ UNCHANGED side

\* main.js:149: loadData's own loadFromLocalStorage()
LoadDataRestore(c) ==
  /\ running = c
  /\ calls[c].pc = "ld_restore"
  /\ \E readable \in BOOLEAN :
       LET r == loadFromLocalStorage(localStorage, GLOBAL_CACHE, now, readable)
       IN /\ GLOBAL_CACHE' = r.cache
          /\ calls' = [calls EXCEPT ![c].pc = "in_begin",
                         ![c].ldBranch = IF r.ret THEN "storage" ELSE "first",
                         ![c].restoreWhy = IF readable THEN "" ELSE "throws",
                         ![c].before = GLOBAL_CACHE]
          /\ cleared' = IF r.ret THEN "no" ELSE cleared
  /\ UNCHANGED <<now, localStorage, ds, mgr, ncalls, running, reloads, remote>>
  /\ UNCHANGED side

\* main.js:138-141, 151-154, 166-173 and the catch at 175: what is shown
\* once initialize() has settled
LoadDataAfter(c) ==
  /\ running = c
  /\ calls[c].pc = "ld_after"
  /\ LET call == calls[c]
         notice == IF call.ldBranch = "first"
                     THEN handleLoadingResults(getStatistics(mgr), mgr.errors)
                     ELSE "success"
         rendered == renderCompetitions(mgr)
     IN calls' = [calls EXCEPT ![c].pc = "in_end",
                    ![c].shown =
                       IF call.threw
                         THEN <<[science |-> "", gem |-> "", notice |-> "",
                                 showError |-> TRUE]>>
                         ELSE <<[science |-> rendered.science, gem |-> rendered.gem,
                                 notice |-> notice,
                                 showError |-> notice = "error"]>>]
  /\ UNCHANGED <<now, GLOBAL_CACHE, localStorage, ds, mgr, ncalls, running, reloads, remote, cleared>>
  /\ UNCHANGED side

-----------------------------------------------------------------------------
(* CompetitionManager.initialize (part_001:29-60) *)

\* variant: the cache branch adopts the snapshot but does not return
InitializeBeginNoReturn(c) ==
  /\ running = c
  /\ calls[c].pc = "in_begin"
  /\ IF isCacheReady(GLOBAL_CACHE, now)
       THEN LET lg == loadFromGlobalCache(GLOBAL_CACHE, mgr)
            IN /\ mgr' = [lg.mgr EXCEPT !.isLoading = TRUE,
                            !.isInitialized = IF lg.threw THEN @ ELSE TRUE]
               /\ calls' = [calls EXCEPT ![c].cacheOk = "yes", ![c].path = "cache",
                                         ![c].pc = "in_restore"]
               /\ running' = c
       ELSE /\ mgr' = [mgr EXCEPT !.isLoading = TRUE]
            /\ calls' = [calls EXCEPT ![c].cacheOk = "no", ![c].pc = "in_restore"]
            /\ running' = c
  /\ UNCHANGED <<now, GLOBAL_CACHE, localStorage, ds, ncalls, reloads, remote, cleared>>
  /\ UNCHANGED side

\* part_001:31-39: isLoading, then the in-memory cache check
InitializeBegin(c) ==
  /\ running = c
  /\ calls[c].pc = "in_begin"
  /\ IF isCacheReady(GLOBAL_CACHE, now)
       THEN LET lg == loadFromGlobalCache(GLOBAL_CACHE, mgr)
                call == Return([calls[c] EXCEPT !.cacheOk = "yes", !.path = "cache",
                                                !.threw = lg.threw])
            IN /\ mgr' = [lg.mgr EXCEPT !.isLoading = FALSE,
                            !.isInitialized = IF lg.threw THEN @ ELSE TRUE]
               /\ calls' = [calls EXCEPT ![c] = call]
               /\ running' = c
       ELSE /\ mgr' = [mgr EXCEPT !.isLoading = TRUE]
            /\ calls' = [calls EXCEPT ![c].cacheOk = "no", ![c].pc = "in_restore"]
            /\ running' = c
  /\ UNCHANGED <<now, GLOBAL_CACHE, localStorage, ds, ncalls, reloads, remote, cleared>>
  /\ UNCHANGED side

\* part_001:42: loadFromLocalStorage()
InitializeRestore(c) ==
  /\ running = c
  /\ calls[c].pc = "in_restore"
  /\ \E readable \in BOOLEAN :
       LET r == loadFromLocalStorage(localStorage, GLOBAL_CACHE, now, readable)
       IN /\ GLOBAL_CACHE' = r.cache
          /\ calls' = [calls EXCEPT
                         ![c].pc = IF r.ret THEN "in_adopt" ELSE "pl_call",
                         ![c].restoreOk = IF r.ret THEN "yes" ELSE "no",
                         ![c].restoreWhy = IF readable THEN "" ELSE "throws",
                         ![c].before = GLOBAL_CACHE,
                         ![c].reads = @ + 1,
                         ![c].path = IF r.ret THEN "storage" ELSE "preload"]
          /\ cleared' = IF r.ret THEN "no" ELSE cleared
  /\ UNCHANGED <<now, localStorage, ds, mgr, ncalls, running, reloads, remote>>
  /\ UNCHANGED side

\* part_001:43-46: adopt the restored snapshot
InitializeAdopt(c) ==
  /\ running = c
  /\ calls[c].pc = "in_adopt"
  /\ LET lg == loadFromGlobalCache(GLOBAL_CACHE, mgr)
         call == Return([calls[c] EXCEPT !.threw = lg.threw])
     IN /\ mgr' = [lg.mgr EXCEPT !.isLoading = FALSE,
                     !.isInitialized = IF lg.threw THEN @ ELSE TRUE]
        /\ calls' = [calls EXCEPT ![c] = call]
        /\ running' = c
  /\ UNCHANGED <<now, GLOBAL_CACHE, localStorage, ds, ncalls, reloads, remote, cleared>>
  /\ UNCHANGED side

\* the call is over: loadData returns, or the promise of initialize() /
\* refresh() settles for ResultsApp.loadData / MainApp.refresh
InitializeEnd(c) ==
  /\ running = c
  /\ calls[c].pc = "in_end"
  /\ calls' = [calls EXCEPT ![c] = Finished(calls[c])]
  /\ running' = 0
  /\ UNCHANGED <<now, GLOBAL_CACHE, localStorage, ds, mgr, ncalls, reloads, remote, cleared>>
  /\ UNCHANGED side

-----------------------------------------------------------------------------
(* CompetitionManager.refresh (part_001:515-536) up to its preloadAllData();
   removed = FALSE when removeItem of DataService.clearCache throws *)

clearStorage(store, removed) == IF removed THEN NoStorage ELSE store

StartRefresh ==
  /\ running = 0
  /\ ncalls < MaxCalls
  /\ \E removed \in BOOLEAN :
       /\ localStorage' = clearStorage(localStorage, removed)
       /\ cleared' = IF removed THEN "removed" ELSE "failed"
  /\ mgr' = [mgr EXCEPT !.isLoading = TRUE, !.isInitialized = FALSE,
                        !.results = EmptyMap]
  /\ ds' = [ds EXCEPT !.cache = EmptyMap]
  /\ GLOBAL_CACHE' = clearGlobalCache(GLOBAL_CACHE)
  /\ calls' = [calls EXCEPT ![ncalls + 1] = Begin("refresh", "pl_call")]
  /\ ncalls' = ncalls + 1
  /\ running' = ncalls + 1
  /\ UNCHANGED <<now, reloads, remote>>
  /\ UNCHANGED side

-----------------------------------------------------------------------------
(* DataService.preloadAllData (DataService.js:24-96) as called by
   CompetitionManager.preloadAllData (part_001:66-82) *)

\* variant: no re-entrancy guard
CallPreloadUnguarded(c) ==
  /\ running = c
  /\ calls[c].pc = "pl_call"
  /\ calls' = [calls EXCEPT ![c].pc = "pl_catalog",
                 ![c].science = PendingSlot, ![c].gem = PendingSlot,
                 ![c].catReqs = @ + 2, ![c].preloads = @ + 1]
  /\ ds' = [ds EXCEPT !.isPreloading = TRUE]
  /\ running' = 0
  /\ UNCHANGED <<now, GLOBAL_CACHE, localStorage, mgr, ncalls, reloads, remote, cleared>>
  /\ UNCHANGED side

\* DataService.js:25-34: the re-entrancy guard, then the two catalogue requests
CallPreload(c) ==
  /\ running = c
  /\ calls[c].pc = "pl_call"
  /\ IF ds.isPreloading
       THEN /\ calls' = [calls EXCEPT ![c].pc = "pl_rejected", ![c].dsRet = "already"]
            /\ ds' = ds
            /\ running' = c
       ELSE /\ calls' = [calls EXCEPT ![c].pc = "pl_catalog",
                           ![c].science = PendingSlot, ![c].gem = PendingSlot,
                           ![c].catReqs = @ + 2, ![c].preloads = @ + 1]
            /\ ds' = [ds EXCEPT !.isPreloading = TRUE]
            /\ running' = 0
  /\ UNCHANGED <<now, GLOBAL_CACHE, localStorage, mgr, ncalls, reloads, remote, cleared>>
  /\ UNCHANGED side

\* part_001:70-80 after {success: false}: throw, catch, loadAllCompetitions()
PreloadRejected(c) ==
  /\ running = c
  /\ calls[c].pc = "pl_rejected"
  /\ calls' = [calls EXCEPT ![c].pc = "fb_catalog",
                 ![c].science = PendingSlot, ![c].gem = PendingSlot,
                 ![c].catReqs = @ + 2]
  /\ running' = 0
  /\ UNCHANGED <<now, GLOBAL_CACHE, localStorage, ds, mgr, ncalls, reloads, remote, cleared>>
  /\ UNCHANGED side

\* variant: the first request to settle resolves the combined promise
SettledFirst(c, category, slot) ==
  LET call == SetSlot(calls[c], category, slot)
  IN /\ calls' = [calls EXCEPT ![c] =
                    [call EXCEPT
                       !.competitions =
                          <<fetchAllCompetitions(call.science, call.gem)>>,
                       !.pc = IF call.pc = "pl_catalog" THEN "pl_gotcat"
                              ELSE "fb_gotcat"]]
     /\ running' = c

\* a getCompetitions request settles; the second one to settle resolves
\* Promise.allSettled and fetchAllCompetitions returns
Settled(c, category, slot) ==
  LET call == SetSlot(calls[c], category, slot)
      both == call.science.st # "pending" /\ call.gem.st # "pending"
  IN /\ calls' = [calls EXCEPT ![c] =
                    IF both
                      THEN [call EXCEPT
                              !.competitions =
                                 <<fetchAllCompetitions(call.science, call.gem)>>,
                              !.pc = IF call.pc = "pl_catalog" THEN "pl_gotcat"
                                     ELSE "fb_gotcat"]
                      ELSE call]
     /\ running' = IF both THEN c ELSE 0

CatalogueFulfilled(c, category) ==
  /\ running = 0
  /\ calls[c].pc \in {"pl_catalog", "fb_catalog"}
  /\ Slot(calls[c], category).st = "pending"
  /\ Settled(c, category,
             [st |-> "fulfilled", data |-> remote[category], err |-> NullErr])
  /\ UNCHANGED <<now, GLOBAL_CACHE, localStorage, ds, mgr, ncalls, reloads, remote, cleared>>
  /\ UNCHANGED side

CatalogueRejected(c, category) ==
  /\ running = 0
  /\ calls[c].pc \in {"pl_catalog", "fb_catalog"}
  /\ Slot(calls[c], category).st = "pending"
  /\ \E kind \in FailureKinds :
       Settled(c, category,
               [st |-> "rejected", data |-> <<>>, err |-> CategoryFailure(category)])
  /\ UNCHANGED <<now, GLOBAL_CACHE, localStorage, ds, mgr, ncalls, reloads, remote, cleared>>
  /\ UNCHANGED side

\* fetchResultsInternal for index i up to its await: a hit of the instance
\* cache returns at once, otherwise a getResults request goes out
Dispatch(call, i, cache, t) ==
  LET key == call.allCompetitions[i].id
      got == getFromCache(cache, key, t)
  IN IF got.hit
       THEN [call |-> [call EXCEPT !.resSt[i] = "ok",
                                   !.allResults = MapSet(@, key, got.data)],
             cache |-> got.cache]
       ELSE [call |-> [call EXCEPT !.resSt[i] = "pending", !.resReqs = @ + 1],
             cache |-> got.cache]

\* Promise.all(resultPromises) resolves when no index is outstanding
AfterResults(call) ==
  IF AllSettled(call.resSt) THEN [call EXCEPT !.pc = "pl_store"] ELSE call

\* variant: no finally block, the throw leaves isPreloading set
PreloadGotCatalogueNoFinally(c) ==
  /\ running = c
  /\ calls[c].pc = "pl_gotcat"
  /\ LET competitions == calls[c].competitions[1]
         all == competitions.science \o competitions.gem
     IN IF Len(competitions.science) = 0 /\ Len(competitions.gem) = 0
          THEN /\ calls' = [calls EXCEPT ![c].pc = "fb_catalog",
                              ![c].dsRet = "threw",
                              ![c].science = PendingSlot, ![c].gem = PendingSlot,
                              ![c].competitions = <<>>,
                              ![c].catReqs = @ + 2]
               /\ ds' = ds
               /\ running' = 0
          ELSE LET started == [calls[c] EXCEPT
                                 !.allCompetitions = all,
                                 !.pc = "pl_results",
                                 !.resSt = [i \in 1..Len(all) |-> "timer"]]
                   d == Dispatch(started, 1, ds.cache, now)
                   call == AfterResults(d.call)
               IN /\ calls' = [calls EXCEPT ![c] = call]
                  /\ ds' = [ds EXCEPT !.cache = d.cache]
                  /\ running' = IF call.pc = "pl_store" THEN c ELSE 0
  /\ UNCHANGED <<now, GLOBAL_CACHE, localStorage, mgr, ncalls, reloads, remote, cleared>>
  /\ UNCHANGED side

\* DataService.js:36-63: the empty check, then the dispatch loop; on the
\* throw, finally resets isPreloading and the manager falls back
PreloadGotCatalogue(c) ==
  /\ running = c
  /\ calls[c].pc = "pl_gotcat"
  /\ LET competitions == calls[c].competitions[1]
         all == competitions.science \o competitions.gem
     IN IF Len(competitions.science) = 0 /\ Len(competitions.gem) = 0
          THEN /\ calls' = [calls EXCEPT ![c].pc = "fb_catalog",
                              ![c].dsRet = "threw",
                              ![c].science = PendingSlot, ![c].gem = PendingSlot,
                              ![c].competitions = <<>>,
                              ![c].catReqs = @ + 2]
               /\ ds' = [ds EXCEPT !.isPreloading = FALSE]
               /\ running' = 0
          ELSE LET started == [calls[c] EXCEPT
                                 !.allCompetitions = all,
                                 !.pc = "pl_results",
                                 !.resSt = [i \in 1..Len(all) |-> "timer"]]
                   d == Dispatch(started, 1, ds.cache, now)
                   call == AfterResults(d.call)
               IN /\ calls' = [calls EXCEPT ![c] = call]
                  /\ ds' = [ds EXCEPT !.cache = d.cache]
                  /\ running' = IF call.pc = "pl_store" THEN c ELSE 0
  /\ UNCHANGED <<now, GLOBAL_CACHE, localStorage, mgr, ncalls, reloads, remote, cleared>>
  /\ UNCHANGED side

\* DataService.js:50-54: the 200 ms sleep of index i > 0 ends (timers of
\* equal delay fire in the order they were set) and its fetch starts
TimerFire(c, i) ==
  /\ running = 0
  /\ calls[c].pc = "pl_results"
  /\ i \in 1..Len(calls[c].resSt)
  /\ calls[c].resSt[i] = "timer"
  /\ \A j \in 1..(i - 1) : calls[c].resSt[j] # "timer"
  /\ LET d == Dispatch(calls[c], i, ds.cache, now)
         call == AfterResults(d.call)
     IN /\ calls' = [calls EXCEPT ![c] = call]
        /\ ds' = [ds EXCEPT !.cache = d.cache]
        /\ running' = IF call.pc = "pl_store" THEN c ELSE 0
  /\ UNCHANGED <<now, GLOBAL_CACHE, localStorage, mgr, ncalls, reloads, remote, cleared>>
  /\ UNCHANGED side

\* DataService.js:54-57 with fetchResultsInternal 205-210: rows arrive
ResultFulfilled(c, i) ==
  /\ running = 0
  /\ calls[c].pc = "pl_results"
  /\ i \in 1..Len(calls[c].resSt)
  /\ calls[c].resSt[i] = "pending"
  /\ LET key == calls[c].allCompetitions[i].id
         rows == RemoteResults(key)
     IN
       LET call == AfterResults([calls[c] EXCEPT
                                   !.resSt[i] = "ok",
                                   !.allResults = MapSet(@, key, rows)])
       IN /\ calls' = [calls EXCEPT ![c] = call]
          /\ ds' = [ds EXCEPT !.cache = setCache(@, key, rows, now)]
          /\ running' = IF call.pc = "pl_store" THEN c ELSE 0
  /\ UNCHANGED <<now, GLOBAL_CACHE, localStorage, mgr, ncalls, reloads, remote, cleared>>
  /\ UNCHANGED side

\* variant: the catch of a failed result fetch records no entry
ResultRejectedNoEntry(c, i) ==
  /\ running = 0
  /\ calls[c].pc = "pl_results"
  /\ i \in 1..Len(calls[c].resSt)
  /\ calls[c].resSt[i] = "pending"
  /\ LET call == AfterResults([calls[c] EXCEPT !.resSt[i] = "failed"])
     IN /\ calls' = [calls EXCEPT ![c] = call]
        /\ running' = IF call.pc = "pl_store" THEN c ELSE 0
  /\ UNCHANGED <<now, GLOBAL_CACHE, localStorage, ds, mgr, ncalls, reloads, remote, cleared>>
  /\ UNCHANGED side

\* DataService.js:58-61: the fetch failed, the entry is the empty list
ResultRejected(c, i) ==
  /\ running = 0
  /\ calls[c].pc = "pl_results"
  /\ i \in 1..Len(calls[c].resSt)
  /\ calls[c].resSt[i] = "pending"
  /\ \E kind \in FailureKinds :
       LET key == calls[c].allCompetitions[i].id
           call == AfterResults([calls[c] EXCEPT
                                   !.resSt[i] = "failed",
                                   !.allResults = MapSet(@, key, <<>>)])
       IN /\ calls' = [calls EXCEPT ![c] = call]
          /\ running' = IF call.pc = "pl_store" THEN c ELSE 0
  /\ UNCHANGED <<now, GLOBAL_CACHE, localStorage, ds, mgr, ncalls, reloads, remote, cleared>>
  /\ UNCHANGED side

CountOk(resSt) == Cardinality({i \in 1..Len(resSt) : resSt[i] = "ok"})

\* variant: saveToLocalStorage has no try/catch, a throwing setItem makes the
\* preload throw after GLOBAL_CACHE was written
PreloadStoreUncaught(c) ==
  /\ running = c
  /\ calls[c].pc = "pl_store"
  /\ LET total == Len(calls[c].allCompetitions)
         successCount == CountOk(calls[c].resSt)
         gc == [competitions |-> calls[c].competitions,
                results |-> calls[c].allResults,
                lastUpdated |-> now,
                isLoaded |-> TRUE]
         lg == loadFromGlobalCache(gc, mgr)
         call == Return([calls[c] EXCEPT
                           !.dsRet = "success", !.saved = TRUE,
                           !.summary = [total |-> total, loaded |-> successCount,
                                        failed |-> total - successCount],
                           !.threw = lg.threw])
     IN /\ GLOBAL_CACHE' = gc
        /\ ds' = [ds EXCEPT !.isPreloading = FALSE]
        /\ cleared' = "no"
        /\ \E written \in BOOLEAN :
             IF written
               THEN /\ localStorage' = saveToLocalStorage(gc, localStorage, TRUE)
                    /\ calls' = [calls EXCEPT ![c] = call]
                    /\ mgr' = [lg.mgr EXCEPT !.isLoading = FALSE,
                                 !.isInitialized = IF lg.threw THEN @ ELSE TRUE]
                    /\ running' = c
               ELSE /\ localStorage' = localStorage
                    /\ calls' = [calls EXCEPT ![c].pc = "fb_catalog",
                                   ![c].dsRet = "threw",
                                   ![c].science = PendingSlot, ![c].gem = PendingSlot,
                                   ![c].catReqs = @ + 2]
                    /\ mgr' = mgr
                    /\ running' = 0
  /\ UNCHANGED <<now, ncalls, reloads, remote>>
  /\ UNCHANGED side

\* DataService.js:65-95, then part_001:70-72 and the end of initialize/refresh
PreloadStore(c) ==
  /\ running = c
  /\ calls[c].pc = "pl_store"
  /\ LET total == Len(calls[c].allCompetitions)
         successCount == CountOk(calls[c].resSt)
         gc == [competitions |-> calls[c].competitions,
                results |-> calls[c].allResults,
                lastUpdated |-> now,
                isLoaded |-> TRUE]
         lg == loadFromGlobalCache(gc, mgr)
         call(written) == Return([calls[c] EXCEPT
                           !.dsRet = "success", !.saved = written,
                           !.summary = [total |-> total, loaded |-> successCount,
                                        failed |-> total - successCount],
                           !.threw = lg.threw])
     IN /\ GLOBAL_CACHE' = gc
        /\ \E written \in BOOLEAN :
             /\ localStorage' = saveToLocalStorage(gc, localStorage, written)
             /\ calls' = [calls EXCEPT ![c] = call(written)]
        /\ ds' = [ds EXCEPT !.isPreloading = FALSE]
        /\ mgr' = [lg.mgr EXCEPT !.isLoading = FALSE,
                     !.isInitialized = IF lg.threw THEN @ ELSE TRUE]
        /\ running' = c
        /\ cleared' = "no"
  /\ UNCHANGED <<now, ncalls, reloads, remote>>
  /\ UNCHANGED side

\* part_001:109-119, then the end of initialize/refresh
FallbackGotCatalogue(c) ==
  /\ running = c
  /\ calls[c].pc = "fb_gotcat"
  /\ LET call == Return(calls[c])
     IN /\ mgr' = [WithCompetitions(mgr, calls[c].competitions[1]) EXCEPT
                     !.isLoading = FALSE, !.isInitialized = TRUE]
        /\ calls' = [calls EXCEPT ![c] = call]
        /\ running' = c
  /\ UNCHANGED <<now, GLOBAL_CACHE, localStorage, ds, ncalls, reloads, remote, cleared>>
  /\ UNCHANGED side

-----------------------------------------------------------------------------
(* The environment *)

\* a further call is possible and no call is in progress
Between ==
  /\ running = 0
  /\ 0 < ncalls /\ ncalls < MaxCalls
  /\ \A c \in 1..ncalls : calls[c].pc \in {"idle", "done"}

\* The clock is read only by the calls, a load lasts seconds and the instants
\* of the model are a TTL apart: time passes between two calls.  Nothing is
\* time-stamped before the first call.
Tick ==
  /\ Between
  /\ \E t \in Instants : t > now /\ now' = t
  /\ UNCHANGED <<GLOBAL_CACHE, localStorage, ds, mgr, calls, ncalls, running,
                 reloads, remote, cleared>>
  /\ UNCHANGED side

\* a page load leaves the promise of a pending loadResults() unsettled for ever
Abandoned(r) == [r EXCEPT !.pc = "idle", !.id = ""]

\* the page is loaded again: every script starts over, the durable keys stay
Reload ==
  /\ running = 0
  /\ 0 < ncalls /\ ncalls < MaxCalls
  /\ reloads < MaxReloads
  /\ reloads' = reloads + 1
  /\ GLOBAL_CACHE' = EmptyCache
  /\ ds' = NewDataService
  /\ mgr' = NewManager
  /\ calls' = [c \in Calls |-> NewCall]
  /\ lr' = Abandoned(lr)
  /\ UNCHANGED <<now, localStorage, ncalls, running, remote, cleared>>
  /\ UNCHANGED otherSides

\* part_000:384-394 clearCacheAndReload: the durable keys are removed (or the
\* removal throws and they stay), then the page is loaded again
ClearCacheAndReload ==
  /\ running = 0
  /\ 0 < ncalls /\ ncalls < MaxCalls
  /\ reloads < MaxReloads
  /\ reloads' = reloads + 1
  /\ \E removed \in BOOLEAN :
       /\ localStorage' = clearStorage(localStorage, removed)
       /\ cleared' = IF removed THEN "removed" ELSE "failed"
  /\ GLOBAL_CACHE' = EmptyCache
  /\ ds' = NewDataService
  /\ mgr' = NewManager
  /\ calls' = [c \in Calls |-> NewCall]
  /\ lr' = Abandoned(lr)
  /\ UNCHANGED <<now, ncalls, running, remote>>
  /\ UNCHANGED otherSides

Next ==
  \/ StartLoadData
  \/ StartRefresh
  \/ \E c \in Calls :
       \/ LoadDataRestore(c)
       \/ LoadDataAfter(c)
       \/ InitializeBegin(c)
       \/ InitializeRestore(c)
       \/ InitializeAdopt(c)
       \/ InitializeEnd(c)
       \/ CallPreload(c)
       \/ PreloadRejected(c)
       \/ PreloadGotCatalogue(c)
       \/ PreloadStore(c)
       \/ FallbackGotCatalogue(c)
       \/ \E category \in Categories :
            \/ CatalogueFulfilled(c, category)
            \/ CatalogueRejected(c, category)
       \/ \E i \in Indices :
            \/ TimerFire(c, i)
            \/ ResultFulfilled(c, i)
            \/ ResultRejected(c, i)
  \/ Tick
  \/ Reload
  \/ ClearCacheAndReload

Spec == Init /\ [][Next]_vars

-----------------------------------------------------------------------------
(* Properties *)

RequestsOf(call) == call.catReqs + call.resReqs

\* what the manager holds once it has adopted the snapshot gc
Adopted(gc) ==
  /\ gc.competitions # <<>>
  /\ mgr.isInitialized
  /\ mgr.science = processCompetitions(gc.competitions[1].science, "science")
  /\ mgr.gem = processCompetitions(gc.competitions[1].gem, "gem")
  /\ mgr.all = mgr.science \o mgr.gem
  /\ mgr.errors = gc.competitions[1].errors

\* C1: initialize() short-circuits in a strict order, at every point of a call
\* up to its end.  A call that found the
\* in-memory cache valid adopts it and makes no durable-storage read and no
\* network request; a call whose loadFromLocalStorage() succeeded had found
\* the cache invalid, adopts the restored snapshot and makes no network
\* request; a call that made any request (catalogue fetches first, result
\* fetches after them) had found the cache invalid and its one restore failed.
C1_InitializeShortCircuits ==
  \A c \in Calls :
    LET call == calls[c] IN
      (call.kind = "loadData" /\ call.pc # "done") =>
        /\ call.cacheOk = "yes" =>
             /\ call.path = "cache"
             /\ call.reads = 0 /\ call.restoreOk = ""
             /\ RequestsOf(call) = 0 /\ call.preloads = 0
        /\ call.restoreOk = "yes" =>
             /\ call.path = "storage"
             /\ call.cacheOk = "no" /\ call.reads = 1
             /\ RequestsOf(call) = 0 /\ call.preloads = 0
        /\ (RequestsOf(call) > 0 \/ call.preloads > 0) =>
             /\ call.path = "preload"
             /\ call.cacheOk = "no" /\ call.restoreOk = "no" /\ call.reads = 1
        /\ call.resReqs > 0 => call.catReqs >= 2
        /\ call.pc = "in_restore" => ~isCacheReady(GLOBAL_CACHE, now)
        /\ (call.pc = "ld_after" /\ call.path \in {"cache", "storage"}) =>
             ~call.threw /\ Adopted(GLOBAL_CACHE)

\* a call that found the cache invalid, restored the snapshot from durable
\* storage and has adopted it
C1_Witness ==
  \E c \in Calls :
    /\ calls[c].pc = "ld_after"
    /\ calls[c].path = "storage"
    /\ calls[c].restoreOk = "yes"
    /\ Adopted(GLOBAL_CACHE)

\* two finished or running loads, the second started right after the first
\* ended, on the same page, with no refresh and no clear between them
InSuccession(c) ==
  /\ calls[c - 1].kind = "loadData" /\ calls[c - 1].pc = "done"
  /\ calls[c].kind = "loadData"
  /\ calls[c].inSuccession

\* C2 as stated: for every outcome of the endpoints, two initialize() calls in
\* succession within the TTL make at most one preload in total and the second
\* call issues no network request.
C2_OnePreloadForEveryOutcome ==
  \A c \in 2..MaxCalls :
    LET p == calls[c - 1]
        k == calls[c]
    IN (/\ InSuccession(c)
        /\ k.startAt - p.startAt < CACHE_TIMEOUT
        /\ p.leftStamp # NullStamp => k.startAt - p.leftStamp < CACHE_TIMEOUT)
       => /\ p.preloads + k.preloads <= 1
          /\ RequestsOf(k) = 0

\* C2, amended: when the first initialize() left a loaded snapshot behind and
\* the second one starts while that snapshot is younger than the TTL, with no
\* refresh or clear in between, the second call takes the in-memory cache,
\* makes no preload and no network request, and the two calls together made
\* at most one preload.
C2_OnePreloadAfterALoadedSnapshot ==
  \A c \in 2..MaxCalls :
    LET p == calls[c - 1]
        k == calls[c]
    IN (/\ InSuccession(c)
        /\ p.leftLoaded
        /\ k.startAt - p.leftStamp < CACHE_TIMEOUT)
       => /\ p.preloads + k.preloads <= 1
          /\ RequestsOf(k) = 0
          /\ k.ldBranch = "cache"
          /\ k.pc \notin {"in_begin", "done"} =>
               k.path = "cache" /\ k.cacheOk = "yes" /\ ~k.threw

\* the first call preloaded, the second came within the TTL and has adopted
\* the snapshot without a request
C2_Witness ==
  \E c \in 2..MaxCalls :
    /\ InSuccession(c)
    /\ calls[c - 1].leftLoaded
    /\ calls[c].startAt - calls[c - 1].leftStamp < CACHE_TIMEOUT
    /\ calls[c - 1].preloads = 1
    /\ calls[c].pc = "in_end"
    /\ calls[c].path = "cache"
    /\ Adopted(GLOBAL_CACHE)

\* a DataService.preloadAllData() call that passed the guard and has not ended
PreloadInProgress(c) ==
  calls[c].pc \in {"pl_catalog", "pl_gotcat", "pl_results", "pl_store"}

\* C3: while one DataService.preloadAllData() is in progress, another call of
\* it returns {success: false, message: 'Already preloading'}: that step sends
\* no request, writes neither GLOBAL_CACHE nor durable storage and leaves
\* isPreloading set; at most one preload is in progress at any time, and the
\* flag is set exactly while one is.
C3_ReentrantPreloadRejected ==
  /\ [](/\ Cardinality({c \in Calls : PreloadInProgress(c)}) <= 1
        /\ ds.isPreloading <=> \E c \in Calls : PreloadInProgress(c))
  /\ [][\A c \in Calls :
          (/\ calls[c].pc = "pl_call"
           /\ calls'[c].pc # "pl_call"
           /\ \E d \in Calls : PreloadInProgress(d))
          => /\ calls'[c].pc = "pl_rejected"
             /\ calls'[c].dsRet = "already"
             /\ RequestsOf(calls'[c]) = RequestsOf(calls[c])
             /\ calls'[c].preloads = calls[c].preloads
             /\ GLOBAL_CACHE' = GLOBAL_CACHE
             /\ localStorage' = localStorage
             /\ ds' = ds /\ ds'.isPreloading
             /\ \A d \in Calls : PreloadInProgress(d) => calls'[d] = calls[d]]_vars

\* a call has just been turned away while another call's preload is running
C3_Witness ==
  \E c, d \in Calls :
    /\ calls[c].pc = "pl_rejected"
    /\ calls[c].dsRet = "already"
    /\ calls[d].pc = "pl_results"
    /\ ds.isPreloading

\* the results map that the outcomes of the result fetches determine
ExpectedResults(call) ==
  [id \in {call.allCompetitions[i].id : i \in 1..Len(call.allCompetitions)} |->
     IF \E i \in 1..Len(call.allCompetitions) :
          call.allCompetitions[i].id = id /\ call.resSt[i] = "ok"
       THEN RemoteResults(id)
       ELSE <<>>]

\* C4: within a preload no getResults request exists (sent, waiting on its
\* timer, or answered) while a getCompetitions request of that preload is
\* unsettled; and once every result fetch has settled, in whatever order, the
\* results map is the one the per-competition outcomes determine.
C4_CatalogueBeforeResults ==
  \A c \in Calls :
    LET call == calls[c] IN
      /\ (call.resSt # <<>> \/ call.resReqs > 0 \/ call.pc \in {"pl_results", "pl_store"})
           => call.science.st # "pending" /\ call.gem.st # "pending"
      /\ call.pc \in {"pl_results", "pl_store"} =>
           /\ call.science.st \in {"fulfilled", "rejected"}
           /\ call.gem.st \in {"fulfilled", "rejected"}
           /\ call.allCompetitions = call.competitions[1].science \o call.competitions[1].gem
      /\ call.pc = "pl_store" => call.allResults = ExpectedResults(call)
      /\ (call.pc \in {"ld_after", "in_end"} /\ call.dsRet = "success") =>
           /\ GLOBAL_CACHE.results = ExpectedResults(call)
           /\ GLOBAL_CACHE.competitions = call.competitions

\* the fetch of a later competition has settled while the first is outstanding
C4_Witness ==
  \E c \in Calls :
    /\ calls[c].pc = "pl_results"
    /\ Len(calls[c].resSt) >= 2
    /\ calls[c].resSt[1] = "pending"
    /\ calls[c].resSt[2] \in {"ok", "failed"}

\* C5: fetchAllCompetitions() always returns once both category fetches have
\* settled, whatever their outcome.  Per category, on its own: a fulfilled
\* fetch gives its array and a null error slot, a rejected one gives the
\* empty array and the category's failure reason.
C5_FetchAllNeverRejects ==
  \A c \in Calls :
    LET call == calls[c] IN
      /\ call.pc \in {"pl_catalog", "fb_catalog"} =>
           call.science.st = "pending" \/ call.gem.st = "pending"
      /\ call.pc \in {"pl_gotcat", "fb_gotcat"} =>
           /\ call.competitions # <<>>
           /\ \A category \in Categories :
                LET slot == Slot(call, category)
                    got == call.competitions[1]
                IN /\ slot.st \in {"fulfilled", "rejected"}
                   /\ slot.st = "fulfilled" =>
                        /\ got[category] = remote[category]
                        /\ got.errors[category] = NullErr
                   /\ slot.st = "rejected" =>
                        /\ got[category] = <<>>
                        /\ got.errors[category] = CategoryFailure(category)

\* one category failed, the other delivered its records
C5_Witness ==
  \E c \in Calls :
    /\ calls[c].pc \in {"pl_gotcat", "fb_gotcat"}
    /\ calls[c].science.st = "rejected"
    /\ calls[c].gem.st = "fulfilled"
    /\ calls[c].competitions[1].gem # <<>>
    /\ calls[c].competitions[1].errors.science = SCIENCE_LOAD_FAILED
    /\ calls[c].competitions[1].errors.gem = NullErr

\* the synchronous stretch between the end of a successful preload and the
\* end of the call that made it
AfterPreload(call) ==
  call.pc \in {"ld_after", "in_end"} /\ call.dsRet = "success"

\* C6: once a preload has found a non-empty catalogue, failing result fetches
\* never abort it.  It resolves with success = true; in the results map the
\* entry of each failed competition is the empty list and that of each
\* successful one holds the fetched rows; and summary.loaded + summary.failed
\* = summary.total = the number of competitions discovered.
C6_ResultFailuresTolerated ==
  \A c \in Calls :
    LET call == calls[c]
        n == Len(call.resSt)
    IN
      /\ call.pc \in {"pl_results", "pl_store"} => call.dsRet = ""
      /\ call.pc \in {"fb_catalog", "fb_gotcat"} => call.resSt = <<>>
      /\ (call.resSt # <<>> /\ call.pc \in {"ld_after", "in_end"}) =>
           /\ call.dsRet = "success"
           /\ ~call.threw
           /\ n = Len(call.competitions[1].science) + Len(call.competitions[1].gem)
           /\ call.summary.total = n
           /\ call.summary.loaded + call.summary.failed = call.summary.total
           /\ call.summary.loaded = Cardinality({i \in 1..n : call.resSt[i] = "ok"})
           /\ call.summary.failed = Cardinality({i \in 1..n : call.resSt[i] = "failed"})
           /\ GLOBAL_CACHE.isLoaded
           /\ \A i \in 1..n :
                LET id == call.allCompetitions[i].id IN
                  /\ id \in DOMAIN GLOBAL_CACHE.results
                  /\ call.resSt[i] = "failed" => GLOBAL_CACHE.results[id] = <<>>
                  /\ call.resSt[i] = "ok" => GLOBAL_CACHE.results[id] = RemoteResults(id)

\* a preload has resolved although some of its result fetches failed
C6_Witness ==
  \E c \in Calls :
    /\ AfterPreload(calls[c])
    /\ calls[c].summary.failed >= 1
    /\ calls[c].summary.loaded >= 1

\* the records of a catalogue that pass validateCompetition
ValidOf(data) == {i \in 1..Len(data) : data[i].id # "" /\ data[i].name # ""}

\* the last catalogue fetch of the call: category came back empty, other has
\* at least one valid record
EmptySuccess(call, category, other) ==
  /\ Slot(call, category).st = "fulfilled"
  /\ Slot(call, category).data = <<>>
  /\ Slot(call, other).st = "fulfilled"
  /\ ValidOf(Slot(call, other).data) # {}

\* C7: when one category's catalogue fetch succeeds with the empty array and
\* the other returns at least one valid record, initialization succeeds,
\* getAllCompetitions() holds exactly the valid records of the other
\* category, the error slot of the empty category is null, and neither
\* category shows the failure state.
C7_EmptyCategoryIsNotAFailure ==
  \A c \in Calls :
    \A category \in Categories :
      LET call == calls[c]
          other == IF category = "science" THEN "gem" ELSE "science"
          data == Slot(call, other).data
          got == getAllCompetitions(mgr)
      IN (call.pc = "in_end" /\ EmptySuccess(call, category, other)) =>
           /\ ~call.threw
           /\ mgr.isInitialized /\ ~mgr.isLoading
           /\ Len(got) = Cardinality(ValidOf(data))
           /\ {[id |-> got[i].id, name |-> got[i].name, category |-> got[i].category] :
                 i \in 1..Len(got)}
              = {[id |-> Trim(data[i].id), name |-> Trim(data[i].name), category |-> other] :
                   i \in ValidOf(data)}
           /\ mgr.errors[category] = NullErr
           /\ call.kind = "loadData" =>
                /\ Len(call.shown) = 1
                /\ ~call.shown[1].showError
                /\ call.shown[1].science = "list"
                /\ call.shown[1].gem = "list"

\* the page has been drawn: science came back empty, gem with one valid record
C7_Witness ==
  \E c \in Calls :
    /\ calls[c].kind = "loadData"
    /\ calls[c].pc = "in_end"
    /\ EmptySuccess(calls[c], "science", "gem")
    /\ Len(getAllCompetitions(mgr)) = 1
    /\ calls[c].shown[1].notice = "warning"

\* C8: the snapshot is reported valid exactly when it is loaded and
\* now - lastUpdated < TTL, at the current instant and at every instant of
\* the model (for a snapshot taken at T0: valid at age TTL - 1, invalid at
\* ages TTL and TTL + 1); an unloaded or cleared snapshot is never valid, and
\* initialize() goes on to durable storage exactly on an invalid snapshot.
C8_ValidIffLoadedAndYoung ==
  /\ \A t \in Instants \cup {now} :
       LET young == (t - GLOBAL_CACHE.lastUpdated) < CACHE_TIMEOUT IN
         /\ isCacheValid(GLOBAL_CACHE, t) <=> (GLOBAL_CACHE.isLoaded /\ young)
         /\ isCacheReady(GLOBAL_CACHE, t) <=> (GLOBAL_CACHE.isLoaded /\ young)
         /\ ~GLOBAL_CACHE.isLoaded => ~isCacheReady(GLOBAL_CACHE, t)
  /\ clearGlobalCache(GLOBAL_CACHE).isLoaded = FALSE
  /\ \A c \in Calls :
       /\ calls[c].pc = "in_restore" =>
            ~(GLOBAL_CACHE.isLoaded /\ (now - GLOBAL_CACHE.lastUpdated) < CACHE_TIMEOUT)
       /\ (calls[c].pc = "ld_after" /\ calls[c].path = "cache") =>
            (GLOBAL_CACHE.isLoaded /\ (now - GLOBAL_CACHE.lastUpdated) < CACHE_TIMEOUT)

\* a loaded snapshot of age exactly the TTL that initialize() has found invalid
C8_Witness ==
  /\ GLOBAL_CACHE.isLoaded
  /\ now - GLOBAL_CACHE.lastUpdated = CACHE_TIMEOUT
  /\ ~isCacheReady(GLOBAL_CACHE, now)
  /\ \E c \in Calls : calls[c].pc = "in_restore"

\* C9 as stated: right after a preload has saved its snapshot (both keys
\* written), loadFromLocalStorage() with the same version and at the same
\* instant returns true and yields a snapshot equal to the one saved:
\* competitions, errors, results and lastUpdated.
C9_SaveThenLoadIsIdentity ==
  \A c \in Calls :
    (AfterPreload(calls[c]) /\ calls[c].saved) =>
      LET r == loadFromLocalStorage(localStorage, GLOBAL_CACHE, now, TRUE)
      IN /\ r.ret
         /\ r.cache = GLOBAL_CACHE

\* loadFromLocalStorage() has just returned in call c
JustRestored(c) ==
  /\ running = c
  /\ \/ calls[c].pc = "in_adopt"
     \/ calls[c].pc = "pl_call" /\ calls[c].kind = "loadData"
     \/ calls[c].pc = "in_begin" /\ calls[c].ldBranch \in {"storage", "first"}

\* ... with true
RestoredTrue(c) ==
  \/ calls[c].pc = "in_adopt"
  \/ calls[c].pc = "in_begin" /\ calls[c].ldBranch = "storage"

\* C10: loadFromLocalStorage() returns false and leaves the in-memory
\* snapshot as it was when there is no durable copy, the stored version tag
\* is not the application's, the stored timestamp is older than the TTL, or
\* the read or the parse throws; otherwise it returns true and the in-memory
\* snapshot is the durable copy with loaded set.
C10_RestoreRejectsOrRepopulates ==
  \A c \in Calls :
    JustRestored(c) =>
      LET copy == localStorage.persist
          rejects == \/ calls[c].restoreWhy = "throws"
                     \/ copy = <<>>
                     \/ localStorage.version # <<APP_VERSION>>
                     \/ (now - copy[1].lastUpdated) > CACHE_TIMEOUT
      IN IF rejects
           THEN /\ ~RestoredTrue(c)
                /\ GLOBAL_CACHE = calls[c].before
           ELSE /\ RestoredTrue(c)
                /\ GLOBAL_CACHE = [competitions |-> copy[1].competitions,
                                   results |-> copy[1].results,
                                   lastUpdated |-> copy[1].lastUpdated,
                                   isLoaded |-> TRUE]

\* an empty in-memory snapshot has just been repopulated from the durable copy
C10_Witness ==
  \E c \in Calls :
    /\ JustRestored(c)
    /\ RestoredTrue(c)
    /\ ~calls[c].before.isLoaded
    /\ GLOBAL_CACHE.isLoaded
    /\ GLOBAL_CACHE.competitions = localStorage.persist[1].competitions

\* the call has gone past the point where initialize() calls preloadAllData()
PastPreloadCall(call) ==
  call.pc \in {"pl_rejected", "pl_catalog", "pl_gotcat", "pl_results", "pl_store",
               "fb_catalog", "fb_gotcat", "ld_after", "in_end"}

\* C11 as stated: after clearCache() or clearCacheAndReload() the in-memory
\* snapshot is empty and both durable keys are absent, and the next
\* initialize() takes neither cache path and performs a full preload.
C11_ClearAlwaysForcesPreload ==
  /\ cleared # "no" =>
       /\ GLOBAL_CACHE = EmptyCache
       /\ localStorage = NoStorage
  /\ \A c \in Calls :
       LET call == calls[c] IN
         (call.kind = "loadData" /\ call.afterClear # "no") =>
           /\ call.ldBranch \in {"", "first"}
           /\ call.cacheOk \in {"", "no"}
           /\ call.restoreOk \in {"", "no"}
           /\ PastPreloadCall(call) => call.preloads = 1

\* C11, amended: after clearCache() or clearCacheAndReload() the in-memory
\* snapshot has competitions = null, no results, lastUpdated = null and
\* loaded = false; when the removal did not throw both durable keys are absent,
\* and the next initialize() then takes neither cache path and, unless a
\* preload is already in progress, performs a full preload.
C11_ClearForcesPreloadWhenRemoved ==
  /\ cleared # "no" =>
       /\ GLOBAL_CACHE.competitions = <<>>
       /\ GLOBAL_CACHE.results = EmptyMap
       /\ GLOBAL_CACHE.lastUpdated = NullStamp
       /\ ~GLOBAL_CACHE.isLoaded
  /\ cleared = "removed" => localStorage = NoStorage
  /\ \A c \in Calls :
       LET call == calls[c] IN
         (call.kind = "loadData" /\ call.afterClear = "removed") =>
           /\ call.ldBranch \in {"", "first"}
           /\ call.cacheOk \in {"", "no"}
           /\ call.restoreOk \in {"", "no"}
           /\ call.pc \notin {"in_adopt", "done"} => call.path \in {"", "preload"}
           /\ (PastPreloadCall(call) /\ call.dsRet # "already") => call.preloads = 1

\* the first initialize() after a clear that removed the keys has started its
\* preload
C11_Witness ==
  \E c \in Calls :
    /\ calls[c].kind = "loadData"
    /\ calls[c].afterClear = "removed"
    /\ calls[c].pc = "pl_catalog"
    /\ calls[c].preloads = 1
    /\ calls[c].restoreOk = "no"

\* C12: a failure of durable storage never propagates.  A preload whose
\* storage write threw still resolves with success = true and leaves a loaded,
\* valid snapshot (a preload throws only on an empty catalogue, before any
\* result fetch); a loadFromLocalStorage() whose read threw returned false,
\* and initialize() went on to the preload; a clearCache() whose removal threw
\* has cleared the in-memory snapshot and the instance cache and refresh()
\* carries on.
C12_StorageFailuresContained ==
  \A c \in Calls :
    LET call == calls[c] IN
      /\ (AfterPreload(call) /\ ~call.saved) =>
           /\ ~call.threw
           /\ GLOBAL_CACHE.isLoaded
           /\ isCacheReady(GLOBAL_CACHE, now)
           /\ GLOBAL_CACHE.competitions = call.competitions
           /\ GLOBAL_CACHE.results = ExpectedResults(call)
           /\ mgr.isInitialized
      /\ call.dsRet = "threw" => call.resSt = <<>>
      /\ call.pc = "pl_store" => call.dsRet = ""
      /\ (JustRestored(c) /\ call.restoreWhy = "throws") =>
           /\ ~RestoredTrue(c)
           /\ GLOBAL_CACHE = call.before
           /\ call.pc = "pl_call" \/ (call.pc = "in_begin" /\ call.ldBranch = "first")
      /\ (call.kind = "loadData" /\ call.restoreOk # "" /\ call.restoreWhy = "throws"
          /\ call.pc # "done") =>
           /\ call.restoreOk = "no" /\ call.path = "preload"
           /\ PastPreloadCall(call) => call.preloads = 1 \/ call.dsRet = "already"
      /\ (call.kind = "refresh" /\ call.pc = "pl_call") =>
           /\ cleared \in {"removed", "failed"}
           /\ GLOBAL_CACHE = EmptyCache
           /\ ds.cache = EmptyMap
           /\ ~call.threw

\* a preload has resolved although saveToLocalStorage() could not write
C12_Witness ==
  \E c \in Calls :
    /\ AfterPreload(calls[c])
    /\ ~calls[c].saved
    /\ isCacheReady(GLOBAL_CACHE, now)
    /\ Adopted(GLOBAL_CACHE)

-----------------------------------------------------------------------------
(* DataService.simpleJSONP: the JSONP transport *)

MaxRequests == 2     \* simpleJSONP() calls in one behaviour

TIMEOUT == 15000     \* CONFIG.API.TIMEOUT, copied to this.timeout

ERRORS_NETWORK == "NETWORK"
ERRORS_API_ERROR == "API_ERROR"
ERRORS_TIMEOUT == "TIMEOUT"

\* the values Math.floor(Math.random() * 1000000) takes in the model
Randoms == {0, 1}

JsonpInstants == {T0, T0 + 1, T0 + TIMEOUT, T0 + TIMEOUT + 1}

(* what the served script passes to the callback; given = FALSE when it passes
   nothing, hasData = FALSE when data is missing or falsy, error = "" when
   error is missing or falsy *)
Responses ==
  {[given |-> TRUE, success |-> TRUE, hasData |-> TRUE, data |-> <<rowA>>, error |-> ""],
   [given |-> TRUE, success |-> TRUE, hasData |-> FALSE, data |-> <<>>, error |-> ""],
   [given |-> TRUE, success |-> FALSE, hasData |-> FALSE, data |-> <<>>,
    error |-> "server error"],
   [given |-> TRUE, success |-> FALSE, hasData |-> TRUE, data |-> <<rowB>>, error |-> ""],
   [given |-> FALSE, success |-> FALSE, hasData |-> FALSE, data |-> <<>>, error |-> ""]}

NoResponse == [given |-> FALSE, success |-> FALSE, hasData |-> FALSE, data |-> <<>>,
               error |-> ""]

Requests == 1..MaxRequests

\* the transport as one value, so that the steps of a handler compose
Transport == [window |-> window, head |-> head, requests |-> requests]

MapRemove(m, k) == [x \in (DOMAIN m) \ {k} |-> m[x]]

\* DataService.js:240-249, the cleanup closure of request k
cleanup(st, k) ==
  [st EXCEPT !.window = MapRemove(@, st.requests[k].callbackName),
             !.head = @ \ {k}]

clearTimeout(st, k) == [st EXCEPT !.requests[k].timer = FALSE]

\* resolve / reject of the promise of request k: a settled promise stays as it is
settle(st, k, state, value) ==
  IF st.requests[k].state = "pending"
    THEN [st EXCEPT !.requests[k].state = state, !.requests[k].value = value]
    ELSE st

\* DataService.js:257-266, the callback closure of request k
callback(st, k, response) ==
  LET after == cleanup(clearTimeout(st, k), k)
  IN IF response.given /\ response.success
       THEN settle(after, k, "resolved",
                   IF response.hasData THEN response.data ELSE <<>>)
       ELSE settle(after, k, "rejected",
                   IF response.given /\ response.error # "" THEN response.error
                   ELSE ERRORS_API_ERROR)

\* DataService.js:279-283
onerror(st, k) ==
  settle(cleanup(clearTimeout(st, k), k), k, "rejected", ERRORS_NETWORK)

\* DataService.js:251-254
onTimeout(st, k) ==
  settle(cleanup(clearTimeout(st, k), k), k, "rejected", ERRORS_TIMEOUT)

Event(type, response) == [type |-> type, response |-> response]

Happened(st, k, event) == [st EXCEPT !.requests[k].events = Append(@, event)]

Becomes(st) ==
  /\ window' = st.window
  /\ head' = st.head
  /\ requests' = st.requests

\* DataService.js:237-287, the synchronous body of the promise executor
simpleJSONP ==
  /\ Len(requests) < MaxRequests
  /\ \E rnd \in Randoms :
       LET callbackName == <<now, rnd>>
           k == Len(requests) + 1
       IN /\ requests' = Append(requests,
                                [callbackName |-> callbackName,
                                 state |-> "pending",
                                 value |-> <<>>,
                                 timer |-> TRUE,
                                 startAt |-> now,
                                 script |-> "loading",
                                 events |-> <<>>])
          /\ window' = MapSet(window, callbackName, k)
          /\ head' = head \cup {k}
  /\ UNCHANGED <<now, besidesJsonp>>

(* the script of request k arrives and runs: it calls window[callbackName],
   which fails when nothing is registered under that name *)
ScriptRuns(k, response) ==
  /\ k <= Len(requests)
  /\ requests[k].script = "loading"
  /\ LET callbackName == requests[k].callbackName
         st == Happened([Transport EXCEPT !.requests[k].script = "executed"],
                        k, Event("response", response))
     IN Becomes(IF callbackName \in DOMAIN window
                  THEN callback(st, window[callbackName], response)
                  ELSE st)
  /\ UNCHANGED <<now, besidesJsonp>>

\* the script of request k cannot be loaded
ScriptError(k) ==
  /\ k <= Len(requests)
  /\ requests[k].script = "loading"
  /\ Becomes(onerror(Happened([Transport EXCEPT !.requests[k].script = "failed"],
                              k, Event("error", NoResponse)),
                     k))
  /\ UNCHANGED <<now, besidesJsonp>>

\* the timer of request k fires, this.timeout after it was set
TimeoutFires(k) ==
  /\ k <= Len(requests)
  /\ requests[k].timer
  /\ now >= requests[k].startAt + TIMEOUT
  /\ Becomes(onTimeout(Happened(Transport, k, Event("timeout", NoResponse)), k))
  /\ UNCHANGED <<now, besidesJsonp>>

JsonpTick ==
  /\ \E t \in JsonpInstants : t > now /\ now' = t
  /\ UNCHANGED <<page, side>>

\* the page is loaded and stays idle
PageIdle ==
  /\ GLOBAL_CACHE = EmptyCache
  /\ localStorage = NoStorage
  /\ ds = NewDataService
  /\ mgr = NewManager
  /\ calls = [c \in Calls |-> NewCall]
  /\ ncalls = 0
  /\ running = 0
  /\ reloads = 0
  /\ remote = [science |-> <<>>, gem |-> <<>>]
  /\ cleared = "no"

JsonpInit ==
  /\ now = T0
  /\ PageIdle
  /\ SideIdle

JsonpNext ==
  \/ simpleJSONP
  \/ \E k \in Requests :
       \/ \E response \in Responses : ScriptRuns(k, response)
       \/ ScriptError(k)
       \/ TimeoutFires(k)
  \/ JsonpTick

JsonpSpec == JsonpInit /\ [][JsonpNext]_vars

Pending == {k \in 1..Len(requests) : requests[k].state = "pending"}

\* what the promise of a request becomes when the event is its first
OutcomeOf(event) ==
  IF event.type = "timeout" THEN [state |-> "rejected", value |-> ERRORS_TIMEOUT]
  ELSE IF event.type = "error" THEN [state |-> "rejected", value |-> ERRORS_NETWORK]
  ELSE IF event.response.given /\ event.response.success
    THEN [state |-> "resolved",
          value |-> IF event.response.hasData THEN event.response.data ELSE <<>>]
  ELSE [state |-> "rejected",
        value |-> IF event.response.given /\ event.response.error # ""
                    THEN event.response.error ELSE ERRORS_API_ERROR]

DistinctNames ==
  \A j, k \in 1..Len(requests) :
    j # k => requests[j].callbackName # requests[k].callbackName

\* C13: in every reachable state the names of the registered callbacks are
\* exactly the callback names of the pending requests, and the attached
\* scripts are exactly those of the pending requests.
C13_CallbacksArePendingRequests ==
  /\ DOMAIN window = {requests[k].callbackName : k \in Pending}
  /\ head = Pending

\* two pending requests got the same callback name
C13_SharedName ==
  \E j, k \in Pending : j # k /\ requests[j].callbackName = requests[k].callbackName

\* as long as the callback names differ, C13 holds
C13_HoldsForDistinctNames == DistinctNames => C13_CallbacksArePendingRequests

\* with distinct names, a response after the timeout changes no promise
C13_LateResponseIgnored ==
  [][\A k \in 1..Len(requests) :
       (DistinctNames /\ requests[k].state # "pending") =>
          /\ requests'[k].state = requests[k].state
          /\ requests'[k].value = requests[k].value]_vars

\* C14: a request is pending until the first of its events (the callback is
\* called, the script fails, the timer fires after TIMEOUT) and from then on
\* has the outcome of that event.
C14_FirstEventDecides ==
  \A k \in 1..Len(requests) :
    LET r == requests[k] IN
      IF r.events = <<>> THEN r.state = "pending"
      ELSE /\ r.state = OutcomeOf(Head(r.events)).state
           /\ r.value = OutcomeOf(Head(r.events)).value
           /\ Head(r.events).type = "timeout" => now >= r.startAt + TIMEOUT

\* as long as the callback names differ, C14 holds
C14_HoldsForDistinctNames == DistinctNames => C14_FirstEventDecides

\* a request was rejected by its timer and its script ran afterwards
C14_LateResponse ==
  \E k \in 1..Len(requests) :
    /\ Len(requests[k].events) = 2
    /\ requests[k].events[1].type = "timeout"
    /\ requests[k].events[2].type = "response"
    /\ requests[k].events[2].response.success

-----------------------------------------------------------------------------
(* DataService.request: retry with a growing delay *)

MAX_ATTEMPTS == 3    \* CONFIG.API.RETRY.MAX_ATTEMPTS

DELAY == 1000        \* CONFIG.API.RETRY.DELAY

MaxRetryTime == 4    \* the clock of request() runs to T0 + MaxRetryTime * DELAY

RetryInstants == {T0 + i * DELAY : i \in 0..MaxRetryTime}

\* what makeRequest() resolves with, and the errors it throws
MakeRequestData == {"data"}
MakeRequestErrors == {"HTTP 500", ERRORS_API_ERROR, ERRORS_TIMEOUT}

\* DataService.js:388-390, the loop enters attempt n and calls makeRequest
Attempt(r, n) ==
  [r EXCEPT !.pc = "awaiting", !.attempt = n,
            !.made = Append(@, [begun |-> now, ended |-> now, ok |-> FALSE,
                                value |-> NullErr])]

\* DataService.js:384-390
StartRequest ==
  /\ retry.pc = "idle"
  /\ retry' = Attempt(retry, 1)
  /\ UNCHANGED <<now, besidesRetry>>

\* DataService.js:390-391
MakeRequestFulfilled(data) ==
  /\ retry.pc = "awaiting"
  /\ retry' = [retry EXCEPT !.pc = "returned", !.result = data,
                            !.made[retry.attempt].ended = now,
                            !.made[retry.attempt].ok = TRUE,
                            !.made[retry.attempt].value = data]
  /\ UNCHANGED <<now, besidesRetry>>

\* variant: the delay does not grow with the attempt
MakeRequestRejectedFlat(error) ==
  /\ retry.pc = "awaiting"
  /\ LET r == [retry EXCEPT !.lastError = error,
                            !.made[retry.attempt].ended = now,
                            !.made[retry.attempt].value = error]
     IN retry' = IF retry.attempt < MAX_ATTEMPTS
                   THEN [r EXCEPT !.pc = "sleeping",
                                  !.wakeAt = now + DELAY,
                                  !.slept = Append(@, DELAY)]
                   ELSE [r EXCEPT !.pc = "thrown", !.result = error]
  /\ UNCHANGED <<now, besidesRetry>>

\* DataService.js:392-402
MakeRequestRejected(error) ==
  /\ retry.pc = "awaiting"
  /\ LET r == [retry EXCEPT !.lastError = error,
                            !.made[retry.attempt].ended = now,
                            !.made[retry.attempt].value = error]
     IN retry' = IF retry.attempt < MAX_ATTEMPTS
                   THEN [r EXCEPT !.pc = "sleeping",
                                  !.wakeAt = now + DELAY * retry.attempt,
                                  !.slept = Append(@, DELAY * retry.attempt)]
                   ELSE [r EXCEPT !.pc = "thrown", !.result = r.lastError]
  /\ UNCHANGED <<now, besidesRetry>>

\* Utils.sleep resolves, the loop goes on with the next attempt
Wake ==
  /\ retry.pc = "sleeping"
  /\ now >= retry.wakeAt
  /\ retry' = Attempt(retry, retry.attempt + 1)
  /\ UNCHANGED <<now, besidesRetry>>

RetryTick ==
  /\ \E t \in RetryInstants : t > now /\ now' = t
  /\ UNCHANGED <<page, side>>

RetryInit ==
  /\ now = T0
  /\ PageIdle
  /\ SideIdle

RetryNext ==
  \/ StartRequest
  \/ \E data \in MakeRequestData : MakeRequestFulfilled(data)
  \/ \E error \in MakeRequestErrors : MakeRequestRejected(error)
  \/ Wake
  \/ RetryTick

RetrySpec == RetryInit /\ [][RetryNext]_vars

-----------------------------------------------------------------------------
(* CompetitionManager: the listings *)

\* the result of find(...) || null of a lookup: <<>> stands for null
NullCompetition == <<>>

\* String.prototype.toLowerCase().trim() on the category names of the model
LowerTrim(s) == IF s = "Gem " THEN "gem" ELSE Trim(s)

\* part_001:214-225
getCompetitionsByCategory(m, category) ==
  IF category = "" THEN <<>>
  ELSE LET normalizedCategory == LowerTrim(category)
       IN IF normalizedCategory = "academic" THEN m.gem
          ELSE IF normalizedCategory = "science" THEN m.science
          ELSE IF normalizedCategory = "gem" THEN m.gem
          ELSE IF normalizedCategory = "all" THEN m.all
          ELSE <<>>

\* variant: an id that matches nothing yields the first competition
getCompetitionByIdOrFirst(m, competitionId) ==
  IF competitionId = "" \/ m.all = <<>> THEN NullCompetition
  ELSE LET normalizedId == Trim(competitionId)
           found == {i \in 1..Len(m.all) : m.all[i].id = normalizedId}
       IN IF found = {} THEN <<m.all[1]>>
          ELSE <<m.all[CHOOSE i \in found : \A j \in found : i <= j]>>

\* part_001:232-237
getCompetitionById(m, competitionId) ==
  IF competitionId = "" THEN NullCompetition
  ELSE LET normalizedId == Trim(competitionId)
           found == {i \in 1..Len(m.all) : m.all[i].id = normalizedId}
       IN IF found = {} THEN NullCompetition
          ELSE <<m.all[CHOOSE i \in found : \A j \in found : i <= j]>>

\* the arguments the listings are called with
CategoryArgs == {"", "science", "gem", "academic", "all", "Gem ", "other"}
IdArgs == {"", " ", "s1", "g1", "g1 ", "g2", "zz"}

Range(seq) == {seq[i] : i \in 1..Len(seq)}

\* every record some listing returns
Outputs ==
  Range(getAllCompetitions(mgr))
    \cup UNION {Range(getCompetitionsByCategory(mgr, category)) : category \in CategoryArgs}
    \cup UNION {Range(getCompetitionById(mgr, id)) : id \in IdArgs}

\* the position in the listing of the valid record at position i of the sheet
Position(data, i) == Cardinality({k \in ValidOf(data) : k <= i})

\* the listing of a category holds the valid records of the sheet, in its order
InSourceOrder(listing, data) ==
  /\ Len(listing) = Cardinality(ValidOf(data))
  /\ \A i \in ValidOf(data) :
       /\ listing[Position(data, i)].id = Trim(data[i].id)
       /\ listing[Position(data, i)].name = Trim(data[i].name)

\* the manager holds a catalogue in which the category was fetched
Fetched(category) == mgr.isInitialized /\ mgr.errors[category] = NullErr

\* C16: no record with an empty id or an empty name is returned by
\* getAllCompetitions(), getCompetitionsByCategory() or getCompetitionById(),
\* and the listing of a fetched category holds every valid record of its sheet
\* in the order of the sheet.
C16_OnlyKeyedRecordsListed ==
  /\ \A rec \in Outputs : rec.id # "" /\ rec.name # ""
  /\ \A category \in Categories :
       Fetched(category) => InSourceOrder(mgr[category], remote[category])
  /\ mgr.all = mgr.science \o mgr.gem

\* the sheets hold no id or name that is only white space
NoBlankKeys ==
  \A category \in Categories : \A i \in 1..Len(remote[category]) :
    /\ remote[category][i].id # "" => Trim(remote[category][i].id) # ""
    /\ remote[category][i].name # "" => Trim(remote[category][i].name) # ""

\* when no id or name of the sheets is only white space, C16 holds
C16_HoldsWithoutBlankKeys == NoBlankKeys => C16_OnlyKeyedRecordsListed

\* a record without name was served and the manager lists the other one
C16_InvalidDropped ==
  /\ Fetched("gem")
  /\ Len(remote.gem) = 2
  /\ Len(mgr.gem) = 1

-----------------------------------------------------------------------------
(* CompetitionManager.processResults: validation, normalisation, order *)

MaxResults == 4      \* records in one results payload

Undefined == "undefined"     \* a property the raw record does not have

(* the award names of awardMap, in Latin letters: champion, first runner-up
   (written with and without the blank), honourable mention, participant *)
NAME_CHAMPION == "chanaloet"
NAME_FIRST_RUNNER == "rong chanaloet andap 1"
NAME_FIRST_RUNNER_TIGHT == "rong chanaloet andap1"
NAME_SECOND_RUNNER == "rong chanaloet andap 2"
NAME_SECOND_RUNNER_TIGHT == "rong chanaloet andap2"
NAME_THIRD_RUNNER == "rong chanaloet andap 3"
NAME_THIRD_RUNNER_TIGHT == "rong chanaloet andap3"
NAME_HONORABLE == "chomchoei"
NAME_PARTICIPANT == "khaoruam"

\* CONFIG.AWARDS, part_000:97-140
AWARDS ==
  [CHAMPION |-> [id |-> "champion", rank |-> 1],
   FIRST_RUNNER |-> [id |-> "first-runner", rank |-> 2],
   SECOND_RUNNER |-> [id |-> "second-runner", rank |-> 3],
   THIRD_RUNNER |-> [id |-> "third-runner", rank |-> 4],
   HONORABLE |-> [id |-> "honorable", rank |-> 5],
   PARTICIPANT |-> [id |-> "participant", rank |-> 6]]

NullConfig == [id |-> "null", rank |-> 0]

\* part_000:404-414
awardMap ==
  [name \in {NAME_CHAMPION, NAME_FIRST_RUNNER, NAME_FIRST_RUNNER_TIGHT,
             NAME_SECOND_RUNNER, NAME_SECOND_RUNNER_TIGHT, NAME_THIRD_RUNNER,
             NAME_THIRD_RUNNER_TIGHT, NAME_HONORABLE, NAME_PARTICIPANT} |->
     IF name = NAME_CHAMPION THEN AWARDS.CHAMPION
     ELSE IF name \in {NAME_FIRST_RUNNER, NAME_FIRST_RUNNER_TIGHT} THEN AWARDS.FIRST_RUNNER
     ELSE IF name \in {NAME_SECOND_RUNNER, NAME_SECOND_RUNNER_TIGHT} THEN AWARDS.SECOND_RUNNER
     ELSE IF name \in {NAME_THIRD_RUNNER, NAME_THIRD_RUNNER_TIGHT} THEN AWARDS.THIRD_RUNNER
     ELSE IF name = NAME_HONORABLE THEN AWARDS.HONORABLE
     ELSE AWARDS.PARTICIPANT]

\* part_000:401-417
getAwardConfig(awardName) ==
  IF awardName = "" THEN NullConfig
  ELSE IF awardName \in DOMAIN awardMap THEN awardMap[awardName]
  ELSE AWARDS.PARTICIPANT

\* a ?? b on the properties of the model
Coalesce(a, b) == IF a # Undefined THEN a ELSE b

\* v is truthy: the strings of the model are falsy when empty or missing
Truthy(v) == v # Undefined /\ v # ""

\* variant: only the school makes a record valid
validateResultSchoolOnly(result) ==
  LET school == Coalesce(result.school, result.schoolTh)
  IN Truthy(school) /\ Trim(school) # ""

\* part_001:327-333
validateResult(result) ==
  LET school == Coalesce(result.school, result.schoolTh)
      award == Coalesce(result.award, result.awardTh)
      hasSchool == Truthy(school) /\ Trim(school) # ""
      hasAward == Truthy(award) /\ Trim(award) # ""
  IN hasSchool \/ hasAward

\* Number.parseInt(raw, 10) on the rank cells of the model; <<>> stands for NaN
ParseInt(raw) ==
  IF raw = "1" THEN <<1>>
  ELSE IF raw = "2" THEN <<2>>
  ELSE IF raw = "3" THEN <<3>>
  ELSE IF raw = "3rd" THEN <<3>>
  ELSE <<>>

\* part_001:341-366; rank = <<>> stands for null
normalizeResult(result, competitionId) ==
  LET award == Coalesce(Coalesce(result.award, result.awardTh), "")
      school == Coalesce(Coalesce(result.school, result.schoolTh), "")
      raw == Coalesce(Coalesce(result.rankTh, result.rank), "")
  IN [competitionId |-> competitionId,
      rank |-> ParseInt(raw),
      award |-> Trim(award),
      school |-> Trim(school)]

\* String.prototype.localeCompare(other, 'th') on the school names of the model
Collation(s) == IF s = "" THEN 0 ELSE IF s = "Alpha" THEN 1 ELSE 2

localeCompare(a, b) ==
  IF Collation(a) < Collation(b) THEN -1
  ELSE IF Collation(a) > Collation(b) THEN 1 ELSE 0

\* variant: entries of equal rank are ordered by school only
compareResultsNoAward(a, b) ==
  IF a.rank # b.rank
    THEN IF a.rank = <<>> THEN 1
         ELSE IF b.rank = <<>> THEN -1
         ELSE a.rank[1] - b.rank[1]
    ELSE localeCompare(a.school, b.school)

\* variant: an entry without rank counts as rank 0
compareResultsNullFirst(a, b) ==
  LET ra == IF a.rank = <<>> THEN 0 ELSE a.rank[1]
      rb == IF b.rank = <<>> THEN 0 ELSE b.rank[1]
      A == getAwardConfig(a.award)
      B == getAwardConfig(b.award)
  IN IF ra # rb THEN ra - rb
     ELSE IF A # NullConfig /\ B # NullConfig /\ A.rank # B.rank THEN A.rank - B.rank
     ELSE IF A # NullConfig /\ B = NullConfig THEN -1
     ELSE IF A = NullConfig /\ B # NullConfig THEN 1
     ELSE localeCompare(a.school, b.school)

(* part_001:374-394; toNum maps a null rank to +Infinity, so two null ranks
   are equal and a null rank is greater than every number *)
compareResults(a, b) ==
  LET A == getAwardConfig(a.award)
      B == getAwardConfig(b.award)
  IN IF a.rank # b.rank
       THEN IF a.rank = <<>> THEN 1
            ELSE IF b.rank = <<>> THEN -1
            ELSE a.rank[1] - b.rank[1]
     ELSE IF A # NullConfig /\ B # NullConfig /\ A.rank # B.rank THEN A.rank - B.rank
     ELSE IF A # NullConfig /\ B = NullConfig THEN -1
     ELSE IF A = NullConfig /\ B # NullConfig THEN 1
     ELSE localeCompare(a.school, b.school)

\* Array.prototype.sort is stable: x goes behind every entry not greater than it
RECURSIVE InsertSorted(_, _)
InsertSorted(sorted, x) ==
  IF sorted = <<>> THEN <<x>>
  ELSE IF compareResults(sorted[Len(sorted)], x) > 0
    THEN InsertSorted(SubSeq(sorted, 1, Len(sorted) - 1), x) \o <<sorted[Len(sorted)]>>
    ELSE sorted \o <<x>>

RECURSIVE SortResults(_)
SortResults(list) ==
  IF list = <<>> THEN <<>>
  ELSE InsertSorted(SortResults(SubSeq(list, 1, Len(list) - 1)), list[Len(list)])

RECURSIVE FilterResults(_)
FilterResults(list) ==
  IF list = <<>> THEN <<>>
  ELSE IF validateResult(Head(list))
    THEN <<Head(list)>> \o FilterResults(Tail(list))
    ELSE FilterResults(Tail(list))

\* part_001:310-320
processResults(payload, competitionId) ==
  IF ~payload.isArray THEN <<>>
  ELSE LET kept == FilterResults(payload.items)
       IN SortResults([i \in 1..Len(kept) |-> normalizeResult(kept[i], competitionId)])

Raw(school, award, rank) ==
  [school |-> school, schoolTh |-> Undefined, award |-> award, awardTh |-> Undefined,
   rank |-> rank, rankTh |-> Undefined]

\* the rows a results sheet of the model can hold
RawPool ==
  {Raw("Alpha", NAME_CHAMPION, "1"),
   Raw("Beta", NAME_HONORABLE, "1"),
   Raw("Alpha", "Gold", "1"),
   Raw("Beta", NAME_PARTICIPANT, "1"),
   Raw("Alpha", "", "1"),
   Raw("", NAME_CHAMPION, ""),
   Raw("Beta", NAME_CHAMPION, "3"),
   Raw(" ", " ", "3"),
   Raw("Beta", "", ""),
   Raw("Alpha", "", "x"),
   [school |-> Undefined, schoolTh |-> "Alpha", award |-> Undefined,
    awardTh |-> NAME_HONORABLE, rank |-> Undefined, rankTh |-> "3rd"]}

\* the payloads handed to processResults: arrays of rows, and one that is no array
Payloads ==
  {[isArray |-> FALSE, items |-> <<>>]}
    \cup {[isArray |-> TRUE, items |-> items] :
            items \in UNION {[1..n -> RawPool] : n \in 0..MaxResults}}

ResultsInit ==
  /\ now = T0
  /\ PageIdle
  /\ JsonpIdle
  /\ RetryIdle
  /\ TableIdle
  /\ LoadIdle
  /\ rawResults \in Payloads
  /\ processed = [done |-> FALSE, list |-> <<>>]

\* CompetitionManager.processResults is called with the payload
ProcessResults ==
  /\ ~processed.done
  /\ processed' = [done |-> TRUE, list |-> processResults(rawResults, "s1")]
  /\ UNCHANGED <<now, besidesResults, rawResults>>

ResultsNext == ProcessResults

ResultsSpec == ResultsInit /\ [][ResultsNext]_vars

\* the school name and the award of a raw record, under either key
SchoolOf(result) == Coalesce(result.school, result.schoolTh)
AwardOf(result) == Coalesce(result.award, result.awardTh)

\* v is present and is not blank once trimmed
NonBlank(v) == v # Undefined /\ Trim(v) # ""

\* the positions of the raw records the claim says are kept
Passing(items) ==
  {i \in 1..Len(items) : NonBlank(SchoolOf(items[i])) \/ NonBlank(AwardOf(items[i]))}

Occurrences(list, rec) == Cardinality({i \in 1..Len(list) : list[i] = rec})

\* C17: processResults returns the empty list for a payload that is no array;
\* otherwise it returns one normalized record for each raw record that has a
\* non-blank school or a non-blank award after trimming, and nothing else.
C17_KeepsNonBlankResults ==
  processed.done =>
    IF ~rawResults.isArray THEN processed.list = <<>>
    ELSE LET items == rawResults.items
             kept == {normalizeResult(items[i], "s1") : i \in Passing(items)}
         IN /\ Len(processed.list) = Cardinality(Passing(items))
            /\ Range(processed.list) = kept
            /\ \A rec \in kept :
                 Occurrences(processed.list, rec) =
                   Cardinality({i \in Passing(items) : normalizeResult(items[i], "s1") = rec})

\* of three raw records the one with a blank school and an award was kept and
\* the one with both blank was dropped
C17_Witness ==
  /\ processed.done
  /\ rawResults.isArray
  /\ Len(rawResults.items) = 3
  /\ \E i, j \in 1..3 :
       /\ ~NonBlank(SchoolOf(rawResults.items[i])) /\ NonBlank(AwardOf(rawResults.items[i]))
       /\ ~NonBlank(SchoolOf(rawResults.items[j])) /\ ~NonBlank(AwardOf(rawResults.items[j]))
       /\ SchoolOf(rawResults.items[j]) = " "
  /\ Len(processed.list) = 2
  /\ \E k \in 1..2 : processed.list[k].school = "" /\ processed.list[k].award = NAME_CHAMPION

\* the payload was no array and the empty list was returned
C17_NotAnArray ==
  /\ processed.done
  /\ ~rawResults.isArray

\* the normalized records of the payload that were kept, in the order of the payload
KeptInOrder ==
  LET kept == FilterResults(rawResults.items)
  IN [i \in 1..Len(kept) |-> normalizeResult(kept[i], "s1")]

Unranked(rec) == rec.rank = <<>>

\* ranked entries come first with ascending ranks, entries without rank last
RanksAscendNullLast(list) ==
  \A i, j \in 1..Len(list) :
    i < j => /\ ~(Unranked(list[i]) /\ ~Unranked(list[j]))
             /\ ((~Unranked(list[i]) /\ ~Unranked(list[j])) =>
                   list[i].rank[1] <= list[j].rank[1])

\* C18 as stated: ranked entries first in ascending order, entries without rank
\* last, and the entries without rank in the order they had in the payload.
C18_NullRanksKeepInputOrder ==
  (processed.done /\ rawResults.isArray) =>
    /\ RanksAscendNullLast(processed.list)
    /\ SelectSeq(processed.list, Unranked) = SelectSeq(KeptInOrder, Unranked)

\* the tier an award sorts with: the rank of its configuration, and a tier
\* behind all of them for a missing award
Tier(rec) ==
  IF rec.award = "" THEN AWARDS.PARTICIPANT.rank + 1
  ELSE IF rec.award \in DOMAIN awardMap THEN awardMap[rec.award].rank
  ELSE AWARDS.PARTICIPANT.rank

\* a is not behind b by award tier and then school name
TierThenSchool(a, b) ==
  \/ Tier(a) < Tier(b)
  \/ Tier(a) = Tier(b) /\ Collation(a.school) <= Collation(b.school)

SameKey(a, b) ==
  a.rank = b.rank /\ Tier(a) = Tier(b) /\ Collation(a.school) = Collation(b.school)

\* C18 amended: ranked entries first in ascending order, entries without rank
\* last; entries of equal rank, those without rank included, are ordered by award
\* tier and then by school name, and keep the order of the payload only when
\* they agree in both.
C18_NullRanksLastByAwardAndSchool ==
  (processed.done /\ rawResults.isArray) =>
    /\ RanksAscendNullLast(processed.list)
    /\ \A i, j \in 1..Len(processed.list) :
         (i < j /\ processed.list[i].rank = processed.list[j].rank) =>
            TierThenSchool(processed.list[i], processed.list[j])
    /\ \A x \in Range(KeptInOrder) :
         LET Like(rec) == SameKey(rec, x)
         IN SelectSeq(processed.list, Like) = SelectSeq(KeptInOrder, Like)

\* ranks 3, null, 1, null came out as 1, 3, null, null, and the two entries
\* without rank changed places
C18_Witness ==
  /\ processed.done
  /\ rawResults.isArray
  /\ Len(KeptInOrder) = 4
  /\ KeptInOrder[1].rank = <<3>> /\ KeptInOrder[2].rank = <<>>
  /\ KeptInOrder[3].rank = <<1>> /\ KeptInOrder[4].rank = <<>>
  /\ processed.list[1].rank = <<1>> /\ processed.list[2].rank = <<3>>
  /\ processed.list[3] = KeptInOrder[4]
  /\ processed.list[4] = KeptInOrder[2]
  /\ KeptInOrder[2] # KeptInOrder[4]

Champion(rec) == rec.award = NAME_CHAMPION
Honorable(rec) == rec.award = NAME_HONORABLE
Unrecognized(rec) == rec.award # "" /\ rec.award \notin DOMAIN awardMap
Missing(rec) == rec.award = ""
Recognized(rec) == rec.award \in DOMAIN awardMap

\* a is ordered before b by compareResults, and stands before it in the list
Before(a, b) ==
  /\ compareResults(a, b) < 0
  /\ compareResults(b, a) > 0
  /\ \A i, j \in 1..Len(processed.list) :
       (processed.list[i] = a /\ processed.list[j] = b) => i < j

\* C19: of two results of equal rank the champion is ordered before the
\* honourable mention and the honourable mention before an award that is not
\* recognized, whatever the school names.
C19_ChampionHonorableUnrecognized ==
  processed.done =>
    \A a, b \in Range(processed.list) :
      a.rank = b.rank =>
        /\ (Champion(a) /\ Honorable(b)) => Before(a, b)
        /\ (Honorable(a) /\ Unrecognized(b)) => Before(a, b)
        /\ (Champion(a) /\ Unrecognized(b)) => Before(a, b)

\* at one rank an honourable mention of school Beta stands before an
\* unrecognized award of school Alpha, and at another a champion of Beta before
\* an honourable mention of Alpha
C19_Witness ==
  /\ processed.done
  /\ Len(processed.list) = 4
  /\ Honorable(processed.list[1]) /\ processed.list[1].school = "Beta"
  /\ Unrecognized(processed.list[2]) /\ processed.list[2].school = "Alpha"
  /\ processed.list[1].rank = processed.list[2].rank
  /\ Champion(processed.list[3]) /\ processed.list[3].school = "Beta"
  /\ Honorable(processed.list[4]) /\ processed.list[4].school = "Alpha"
  /\ processed.list[3].rank = processed.list[4].rank

\* C20: of two results of equal rank one with an unrecognized or missing award
\* is ordered after one with any of the recognized awards, participant included,
\* whatever the school names; the school names decide only between a
\* recognized award of the same tier, or between two awards that are both
\* unrecognized or missing.
C20_UnrecognizedAfterAllTiers ==
  processed.done =>
    \A a, b \in Range(processed.list) :
      (a.rank = b.rank /\ Recognized(a) /\ (Unrecognized(b) \/ Missing(b))) =>
        Before(a, b)

\* a missing award is ordered after every award that is given, and an
\* unrecognized one after the five tiers above participant
C20_HoldsAboveParticipant ==
  processed.done =>
    \A a, b \in Range(processed.list) :
      a.rank = b.rank =>
        /\ (~Missing(a) /\ Missing(b)) => Before(a, b)
        /\ (Recognized(a) /\ Tier(a) < AWARDS.PARTICIPANT.rank /\ Unrecognized(b)) =>
             Before(a, b)
        /\ (Tier(a) = Tier(b)) =>
             compareResults(a, b) = localeCompare(a.school, b.school)

-----------------------------------------------------------------------------
(* ResultsApp.createTableBody: the rows of the results table *)

MaxRows == 3         \* results shown in one table

(* the level names of levelOrder and the short forms normalizeLevelKey knows,
   in Latin letters: primary, lower secondary, upper secondary, general *)
LEVEL_PRIMARY == "prathomsueksa"
LEVEL_PRIMARY_SHORT == "prathom"
LEVEL_JUNIOR == "matthayomsueksa ton ton"
LEVEL_JUNIOR_SHORT == "matthayom ton"
LEVEL_SENIOR == "matthayomsueksa ton plai"
LEVEL_SENIOR_SHORT == "matthayom plai"
LEVEL_GENERAL == "thuapai"

\* results.js:250
levelOrder == <<LEVEL_PRIMARY, LEVEL_JUNIOR, LEVEL_SENIOR, LEVEL_GENERAL, "">>

\* results.js:804-816
normalizeLevelKey(raw) ==
  LET s == Trim(raw)
  IN IF s \in {LEVEL_PRIMARY_SHORT, LEVEL_PRIMARY} THEN LEVEL_PRIMARY
     ELSE IF s \in {LEVEL_JUNIOR_SHORT, LEVEL_JUNIOR} THEN LEVEL_JUNIOR
     ELSE IF s \in {LEVEL_SENIOR_SHORT, LEVEL_SENIOR} THEN LEVEL_SENIOR
     ELSE IF s = LEVEL_GENERAL THEN LEVEL_GENERAL
     ELSE s

\* results.js:252-256; <<>> stands for Number.POSITIVE_INFINITY
toIndex(lvl) ==
  LET key == normalizeLevelKey(lvl)
      found == {i \in 1..Len(levelOrder) : levelOrder[i] = key}
  IN IF found = {} THEN <<>> ELSE <<(CHOOSE i \in found : TRUE) - 1>>

(* the difference x - y of two numbers of which either may be +Infinity (<<>>);
   Infinity - Infinity is NaN, which sort() takes as 0 *)
Minus(x, y) ==
  IF x = <<>> /\ y = <<>> THEN 0
  ELSE IF x = <<>> THEN 1
  ELSE IF y = <<>> THEN -1
  ELSE x[1] - y[1]

\* results.js:258-269, the comparator handed to sort()
compareRows(a, b) ==
  LET ia == toIndex(a.level)
      ib == toIndex(b.level)
  IN IF ia # ib THEN Minus(ia, ib) ELSE Minus(a.rank, b.rank)

\* Array.prototype.sort is stable; the rows are sorted as positions of this.results
RECURSIVE InsertRow(_, _, _)
InsertRow(results, sorted, i) ==
  IF sorted = <<>> THEN <<i>>
  ELSE IF compareRows(results[sorted[Len(sorted)]], results[i]) > 0
    THEN InsertRow(results, SubSeq(sorted, 1, Len(sorted) - 1), i) \o <<sorted[Len(sorted)]>>
    ELSE sorted \o <<i>>

RECURSIVE SortRows(_, _)
SortRows(results, n) ==
  IF n = 0 THEN <<>> ELSE InsertRow(results, SortRows(results, n - 1), n)

\* results.js:271-288, the forEach over the sorted rows; prev = <<>> stands for null
RECURSIVE EmitRows(_, _, _)
EmitRows(results, sorted, prevLevelKey) ==
  IF sorted = <<>> THEN <<>>
  ELSE LET levelKey == normalizeLevelKey(results[Head(sorted)].level)
           row == [kind |-> "row", level |-> levelKey, index |-> Head(sorted)]
           group == [kind |-> "group", level |-> levelKey, index |-> 0]
       IN (IF <<levelKey>> # prevLevelKey THEN <<group, row>> ELSE <<row>>)
            \o EmitRows(results, Tail(sorted), <<levelKey>>)

\* results.js:248-291
createTableBody(results) ==
  EmitRows(results, SortRows(results, Len(results)), <<>>)

\* the normalized results a table is built from: level and rank
RowPool ==
  {[level |-> level, rank |-> rank] :
     level \in {LEVEL_PRIMARY, LEVEL_PRIMARY_SHORT, LEVEL_JUNIOR, LEVEL_GENERAL, "", "X", "Y"},
     rank \in {<<1>>, <<3>>, <<>>}}

TableInit ==
  /\ now = T0
  /\ PageIdle
  /\ JsonpIdle
  /\ RetryIdle
  /\ LoadIdle
  /\ ResultsIdle
  /\ tableResults \in UNION {[1..n -> RowPool] : n \in 0..MaxRows}
  /\ tbody = [done |-> FALSE, children |-> <<>>]

\* ResultsApp.renderResults builds the table
CreateTableBody ==
  /\ ~tbody.done
  /\ tbody' = [done |-> TRUE, children |-> createTableBody(tableResults)]
  /\ UNCHANGED <<now, besidesTable, tableResults>>

TableNext == CreateTableBody

TableSpec == TableInit /\ [][TableNext]_vars

IsRow(child) == child.kind = "row"
IsGroup(child) == child.kind = "group"

\* the rows of the table, top to bottom
Rows == SelectSeq(tbody.children, IsRow)

\* the place of a level in the order of the groups; unrecognized levels come last
GroupOf(levelKey) ==
  IF \E i \in 1..Len(levelOrder) : levelOrder[i] = levelKey
    THEN CHOOSE i \in 1..Len(levelOrder) : levelOrder[i] = levelKey
    ELSE Len(levelOrder) + 1

Recognized_Level(levelKey) == GroupOf(levelKey) <= Len(levelOrder)

RankOf(row) == tableResults[row.index].rank

\* row p is not behind row q by rank: ascending, missing ranks last
RankNotBehind(p, q) ==
  \/ RankOf(Rows[q]) = <<>>
  \/ RankOf(Rows[p]) # <<>> /\ RankOf(Rows[p])[1] <= RankOf(Rows[q])[1]

\* every result is shown in exactly one row
EveryResultOnce ==
  /\ Len(Rows) = Len(tableResults)
  /\ \A i \in 1..Len(tableResults) : \E p \in 1..Len(Rows) : Rows[p].index = i

\* C21: the rows follow the order of the level groups, rows of unrecognized
\* levels come last in their original order, rows of one recognized level are in
\* ascending rank with missing ranks last, the rows of one level are contiguous
\* and each level present has exactly one group header.
C21_GroupedByLevelThenRank ==
  tbody.done =>
    /\ EveryResultOnce
    /\ \A p, q \in 1..Len(Rows) :
         p < q =>
           /\ GroupOf(Rows[p].level) <= GroupOf(Rows[q].level)
           /\ (~Recognized_Level(Rows[p].level) /\ ~Recognized_Level(Rows[q].level)) =>
                Rows[p].index < Rows[q].index
           /\ (Recognized_Level(Rows[p].level) /\ Rows[p].level = Rows[q].level) =>
                RankNotBehind(p, q)
    /\ \A p, q, r \in 1..Len(Rows) :
         (p < q /\ q < r /\ Rows[p].level = Rows[r].level) => Rows[q].level = Rows[p].level
    /\ \A p \in 1..Len(Rows) :
         Cardinality({c \in 1..Len(tbody.children) :
                        /\ IsGroup(tbody.children[c])
                        /\ tbody.children[c].level = Rows[p].level}) = 1

\* what holds for every table: the rows follow the order of the level groups,
\* all unrecognized levels forming one last group; inside a group they are in
\* ascending rank with missing ranks last, in input order when the ranks are
\* equal; a header stands before every row whose level differs from the row
\* above; each recognized level has exactly one header.
C21_SortedByGroupThenRank ==
  tbody.done =>
    /\ EveryResultOnce
    /\ \A p, q \in 1..Len(Rows) :
         p < q =>
           /\ GroupOf(Rows[p].level) <= GroupOf(Rows[q].level)
           /\ GroupOf(Rows[p].level) = GroupOf(Rows[q].level) =>
                /\ RankNotBehind(p, q)
                /\ RankOf(Rows[p]) = RankOf(Rows[q]) => Rows[p].index < Rows[q].index
    /\ \A p \in 1..Len(Rows) :
         Recognized_Level(Rows[p].level) =>
           Cardinality({c \in 1..Len(tbody.children) :
                          /\ IsGroup(tbody.children[c])
                          /\ tbody.children[c].level = Rows[p].level}) = 1

\* one unrecognized level has two headers
C21_HeaderTwice ==
  /\ tbody.done
  /\ \E c, d \in 1..Len(tbody.children) :
       /\ c < d
       /\ IsGroup(tbody.children[c]) /\ IsGroup(tbody.children[d])
       /\ tbody.children[c].level = tbody.children[d].level

-----------------------------------------------------------------------------
(* CompetitionManager.loadResults and DataService.fetchResults, interleaved  *)
(* with the page life cycle                                                  *)

MaxLoads == 2        \* loadResults() calls in one behaviour

ERRORS_COMPETITION_NOT_FOUND == "COMPETITION_NOT_FOUND"

\* the error fetchResultsInternal wraps a failed request in
FETCH_FAILED == "FETCH_FAILED"

\* the ids loadResults is called with
LoadIds == {"", "s1", "zz"}

\* a rank as the cell of the sheet holds it
RankCell(n) == IF n = 1 THEN "1" ELSE IF n = 2 THEN "2" ELSE "3"

\* the rows of a results response as the array processResults reads
Sheet(rows) ==
  [isArray |-> TRUE,
   items |-> [i \in 1..Len(rows) |->
                Raw(rows[i].school, rows[i].award, RankCell(rows[i].rank))]]

\* what a finished loadResults() leaves in the history
Returned(id, value, from, sent) ==
  [id |-> id, outcome |-> "returned", value |-> value, error |-> NullErr,
   from |-> from, sent |-> sent]

Thrown(id, error, sent) ==
  [id |-> id, outcome |-> "rejected", value |-> <<>>, error |-> error,
   from |-> "none", sent |-> sent]

\* the call is over: `last` keeps how the latest call ended
Ended(r, entry) ==
  [r EXCEPT !.pc = "idle", !.id = "", !.ended = @ + 1, !.last = <<entry>>]

\* part_001:257-295 up to the request of fetchResultsInternal
\* (DataService.js:170-205): the manager's map, the snapshot, the catalogue,
\* the instance cache
LoadResults(competitionId) ==
  /\ running = 0
  /\ lr.pc = "idle"
  /\ lr.calls < MaxLoads
  /\ LET r == [lr EXCEPT !.calls = @ + 1]
         competition == getCompetitionById(mgr, competitionId)
         cached == getFromCache(ds.cache, competitionId, now)
     IN IF competitionId = ""
          THEN /\ lr' = Ended(r, Thrown(competitionId, ERRORS_COMPETITION_NOT_FOUND, 0))
               /\ UNCHANGED <<GLOBAL_CACHE, mgr, ds>>
        ELSE IF competitionId \in DOMAIN mgr.results
          THEN /\ lr' = Ended(r, Returned(competitionId, mgr.results[competitionId],
                                          "manager", 0))
               /\ UNCHANGED <<GLOBAL_CACHE, mgr, ds>>
        ELSE IF competitionId \in DOMAIN GLOBAL_CACHE.results
          THEN LET processedResults ==
                     processResults(Sheet(GLOBAL_CACHE.results[competitionId]),
                                    competitionId)
               IN /\ mgr' = [mgr EXCEPT !.results =
                               MapSet(@, competitionId, processedResults)]
                  /\ lr' = Ended(r, Returned(competitionId, processedResults,
                                             "snapshot", 0))
                  /\ UNCHANGED <<GLOBAL_CACHE, ds>>
        ELSE IF competition = NullCompetition
          THEN /\ lr' = Ended(r, Thrown(competitionId, ERRORS_COMPETITION_NOT_FOUND, 0))
               /\ UNCHANGED <<GLOBAL_CACHE, mgr, ds>>
        ELSE IF cached.hit
          THEN LET processedResults == processResults(Sheet(cached.data), competitionId)
               IN /\ mgr' = [mgr EXCEPT !.results =
                               MapSet(@, competitionId, processedResults)]
                  /\ GLOBAL_CACHE' = [GLOBAL_CACHE EXCEPT !.results =
                                        MapSet(@, competitionId, cached.data)]
                  /\ lr' = Ended(r, Returned(competitionId, processedResults,
                                             "instance", 0))
                  /\ UNCHANGED ds
        ELSE /\ ds' = [ds EXCEPT !.cache = cached.cache]
             /\ lr' = [r EXCEPT !.pc = "fetching", !.id = competitionId]
             /\ UNCHANGED <<GLOBAL_CACHE, mgr>>
  /\ UNCHANGED <<now, localStorage, calls, ncalls, running, reloads, remote, cleared>>
  /\ UNCHANGED besidesLoad

\* variant: the fetched entry also renews the timestamp of the snapshot
LoadResultsFulfilledStamps ==
  /\ running = 0
  /\ lr.pc = "fetching"
  /\ LET rawRows == RemoteResults(lr.id)
         processedResults == processResults(Sheet(rawRows), lr.id)
     IN /\ ds' = [ds EXCEPT !.cache = setCache(@, lr.id, rawRows, now)]
        /\ mgr' = [mgr EXCEPT !.results = MapSet(@, lr.id, processedResults)]
        /\ GLOBAL_CACHE' = [GLOBAL_CACHE EXCEPT !.results = MapSet(@, lr.id, rawRows),
                                                !.lastUpdated = now]
        /\ lr' = Ended(lr, Returned(lr.id, processedResults, "network", 1))
  /\ UNCHANGED <<now, localStorage, calls, ncalls, running, reloads, remote, cleared>>
  /\ UNCHANGED besidesLoad

\* DataService.js:205-210 and part_001:290-297: the request succeeds
LoadResultsFulfilled ==
  /\ running = 0
  /\ lr.pc = "fetching"
  /\ LET rawRows == RemoteResults(lr.id)
         processedResults == processResults(Sheet(rawRows), lr.id)
     IN /\ ds' = [ds EXCEPT !.cache = setCache(@, lr.id, rawRows, now)]
        /\ mgr' = [mgr EXCEPT !.results = MapSet(@, lr.id, processedResults)]
        /\ GLOBAL_CACHE' = [GLOBAL_CACHE EXCEPT !.results = MapSet(@, lr.id, rawRows)]
        /\ lr' = Ended(lr, Returned(lr.id, processedResults, "network", 1))
  /\ UNCHANGED <<now, localStorage, calls, ncalls, running, reloads, remote, cleared>>
  /\ UNCHANGED besidesLoad

\* DataService.js:211-214 and part_001:298-301: the request fails
LoadResultsRejected(kind) ==
  /\ running = 0
  /\ lr.pc = "fetching"
  /\ lr' = Ended(lr, Thrown(lr.id, FETCH_FAILED, 1))
  /\ UNCHANGED <<now, page, besidesLoad>>

LoadInit ==
  /\ now = T0
  /\ GLOBAL_CACHE = EmptyCache
  /\ localStorage = NoStorage
  /\ ds = NewDataService
  /\ mgr = NewManager
  /\ calls = [c \in Calls |-> NewCall]
  /\ ncalls = 0
  /\ running = 0
  /\ reloads = 0
  /\ remote = [science |-> <<s1>>, gem |-> <<g2>>]
  /\ cleared = "no"
  /\ SideIdle

LoadNext ==
  \/ Next
  \/ \E competitionId \in LoadIds : LoadResults(competitionId)
  \/ LoadResultsFulfilled
  \/ \E kind \in FailureKinds : LoadResultsRejected(kind)

LoadSpec == LoadInit /\ [][LoadNext]_vars

\* a step of loadResults(): the call, or the end of its request
LoadStep == lr'.calls > lr.calls \/ lr'.ended > lr.ended

LastLoad == lr.last[1]

\* C22: loadResults(id) leaves every field of GLOBAL_CACHE unchanged, also
\* when it has to fetch the results from the remote endpoint.
C22_LoadResultsLeavesSnapshot ==
  [][LoadStep => GLOBAL_CACHE' = GLOBAL_CACHE]_vars

\* C22, as the code has it: loadResults(id) leaves competitions, lastUpdated
\* and isLoaded unchanged and every entry of the results mapping but the one
\* of id; it writes that entry, with the rows it fetched, exactly when the
\* rows came from the endpoint or from the instance cache.
C22_LoadResultsWritesOnlyItsEntry ==
  [][LoadStep =>
       /\ GLOBAL_CACHE'.competitions = GLOBAL_CACHE.competitions
       /\ GLOBAL_CACHE'.lastUpdated = GLOBAL_CACHE.lastUpdated
       /\ GLOBAL_CACHE'.isLoaded = GLOBAL_CACHE.isLoaded
       /\ IF lr'.ended > lr.ended /\ lr'.last[1].from \in {"network", "instance"}
            THEN LET id == lr'.last[1].id
                 IN /\ DOMAIN GLOBAL_CACHE'.results = DOMAIN GLOBAL_CACHE.results \cup {id}
                    /\ \A k \in DOMAIN GLOBAL_CACHE.results \ {id} :
                         GLOBAL_CACHE'.results[k] = GLOBAL_CACHE.results[k]
                    /\ lr'.last[1].value
                         = processResults(Sheet(GLOBAL_CACHE'.results[id]), id)
            ELSE GLOBAL_CACHE'.results = GLOBAL_CACHE.results
     ]_vars

\* loadResults fetched the rows of a listed competition while no snapshot was
\* loaded, and the snapshot, still not loaded, holds them
C22_FetchedEntryWritten ==
  /\ lr.last # <<>>
  /\ LastLoad.from = "network"
  /\ LastLoad.outcome = "returned"
  /\ ~GLOBAL_CACHE.isLoaded
  /\ LastLoad.id \in DOMAIN GLOBAL_CACHE.results
  /\ GLOBAL_CACHE.results[LastLoad.id] = RemoteResults(LastLoad.id)

\* the id the loadResults() call of this step was made with
CalledId == IF lr'.pc = "fetching" THEN lr'.id ELSE lr'.last[1].id

\* the listed competitions whose id is the trimmed competitionId
Matching(competitionId) ==
  {i \in 1..Len(mgr.all) : mgr.all[i].id = Trim(competitionId)}

\* C24: loadResults(id) for an id that is empty, or that has no entry in the
\* manager's map, none in the results mapping of the snapshot and no matching
\* competition, rejects with COMPETITION_NOT_FOUND, sends no request and
\* leaves the manager, the snapshot and the DataService as they were.
C24_UnknownIdRejectedWithoutRequest ==
  [][lr'.calls > lr.calls =>
       LET id == CalledId
       IN (\/ id = ""
           \/ /\ id \notin DOMAIN mgr.results
              /\ id \notin DOMAIN GLOBAL_CACHE.results
              /\ Matching(id) = {})
            => /\ lr'.pc = "idle"
               /\ lr'.ended = lr.ended + 1
               /\ lr'.last = <<Thrown(id, ERRORS_COMPETITION_NOT_FOUND, 0)>>
               /\ mgr' = mgr
               /\ GLOBAL_CACHE' = GLOBAL_CACHE
               /\ ds' = ds
    ]_vars

\* an unknown id was rejected while the snapshot was loaded and the manager
\* held the results of a competition
C24_Witness ==
  /\ lr.last = <<Thrown("zz", ERRORS_COMPETITION_NOT_FOUND, 0)>>
  /\ GLOBAL_CACHE.isLoaded
  /\ mgr.all # <<>>
  /\ mgr.results # EmptyMap

\* the empty id was rejected
C24_EmptyIdRejected ==
  /\ lr.last = <<Thrown("", ERRORS_COMPETITION_NOT_FOUND, 0)>>
  /\ mgr.all # <<>>

-----------------------------------------------------------------------------
(* The restore from durable storage, seen from the page life cycle *)

\* call c makes its loadFromLocalStorage() call in this step
RestoreStep(c) ==
  \/ calls[c].pc = "ld_restore" /\ calls'[c].pc = "in_begin"
  \/ calls[c].pc = "in_restore" /\ calls'[c].pc \in {"in_adopt", "pl_call"}

\* that call returned true
RestoreStepTrue(c) ==
  \/ calls[c].pc = "ld_restore" /\ calls'[c].ldBranch = "storage"
  \/ calls[c].pc = "in_restore" /\ calls'[c].restoreOk = "yes"

\* the snapshot as the blob under PERSIST_KEY describes it
DurableCopy(store) ==
  [competitions |-> store.persist[1].competitions,
   results |-> store.persist[1].results,
   lastUpdated |-> store.persist[1].lastUpdated,
   isLoaded |-> TRUE]

\* call c is about to read the snapshot its restore produced
ReadsRestored(c) ==
  \/ calls[c].pc = "in_adopt"
  \/ calls[c].pc = "in_begin" /\ calls[c].ldBranch = "storage"

\* C23: loadFromLocalStorage() is called only when the in-memory snapshot is
\* absent or not valid; when it returns true, competitions, results,
\* lastUpdated and the loaded flag of the in-memory snapshot are those of the
\* durable copy, and they still are when the caller reads the snapshot.
C23_RestoreOnlyWhenInvalidAndWhole ==
  [][\A c \in Calls :
       /\ RestoreStep(c) =>
            /\ ~isCacheValid(GLOBAL_CACHE, now)
            /\ RestoreStepTrue(c) =>
                 /\ localStorage.persist # <<>>
                 /\ GLOBAL_CACHE' = DurableCopy(localStorage)
                 /\ localStorage' = localStorage
       /\ ReadsRestored(c) =>
            /\ localStorage.persist # <<>>
            /\ GLOBAL_CACHE = DurableCopy(localStorage)
    ]_vars

\* a restore replaced a loaded snapshot that had reached the TTL, and the
\* manager is about to read the restored one
C23_Witness ==
  \E c \in Calls :
    /\ calls[c].pc = "in_adopt"
    /\ calls[c].restoreOk = "yes"
    /\ calls[c].before.isLoaded
    /\ GLOBAL_CACHE.results # EmptyMap
    /\ now - GLOBAL_CACHE.lastUpdated = CACHE_TIMEOUT

\* a restore filled the empty snapshot of a page that was just loaded
C23_RestoredAfterReload ==
  \E c \in Calls :
    /\ ReadsRestored(c)
    /\ calls[c].before = EmptyCache
    /\ GLOBAL_CACHE.isLoaded
    /\ GLOBAL_CACHE.results # EmptyMap

-----------------------------------------------------------------------------
(* A preload that fails as a whole *)

\* call c takes a step of preloadAllData() that comes before the store
BeforeStoreStep(c) ==
  /\ calls[c].pc \in {"pl_call", "pl_catalog", "pl_gotcat"}
  /\ calls'[c] # calls[c]
  /\ reloads' = reloads

\* preloadAllData() of call c throws in this step
PreloadThrows(c) ==
  /\ calls[c].pc = "pl_gotcat"
  /\ calls'[c].dsRet = "threw"
  /\ reloads' = reloads

\* C25: a preload whose two catalogue requests fail, or yield no competition,
\* throws; none of its steps has changed GLOBAL_CACHE or the durable keys,
\* and isPreloading is false when it throws.
C25_FailedPreloadChangesNothing ==
  [][\A c \in Calls :
       /\ BeforeStoreStep(c) =>
            /\ GLOBAL_CACHE' = GLOBAL_CACHE
            /\ localStorage' = localStorage
       /\ (calls[c].pc = "pl_gotcat" /\ reloads' = reloads) =>
            (PreloadThrows(c) <=>
               (calls[c].competitions[1].science = <<>>
                  /\ calls[c].competitions[1].gem = <<>>))
       /\ PreloadThrows(c) => ~ds'.isPreloading
    ]_vars

\* a preload that got no competition threw, and the loaded snapshot and the
\* durable copy an earlier preload left are still there
C25_Witness ==
  \E c \in Calls :
    /\ calls[c].dsRet = "threw"
    /\ calls[c].pc = "fb_catalog"
    /\ calls[c].preloads = 1
    /\ GLOBAL_CACHE.isLoaded
    /\ calls[c].startAt > GLOBAL_CACHE.lastUpdated
    /\ GLOBAL_CACHE.competitions # <<>>
    /\ localStorage.persist # <<>>
    /\ localStorage.version = <<APP_VERSION>>
    /\ ~ds.isPreloading

-----------------------------------------------------------------------------
(* The snapshot as its readers see it *)

\* C26: whenever GLOBAL_CACHE.isLoaded is true, competitions and lastUpdated
\* are not null, whatever preloads, restores, clears, refreshes, reloads and
\* loadResults calls came before.
C26_LoadedSnapshotIsWhole ==
  GLOBAL_CACHE.isLoaded =>
    /\ GLOBAL_CACHE.competitions # <<>>
    /\ GLOBAL_CACHE.lastUpdated # NullStamp

\* a loaded snapshot after a refresh, with an entry loadResults wrote while
\* the refresh was under way
C26_Witness ==
  /\ GLOBAL_CACHE.isLoaded
  /\ cleared = "no"
  /\ \E c \in Calls : calls[c].kind = "refresh" /\ calls[c].pc = "done"
  /\ lr.last # <<>>
  /\ LastLoad.from = "network"
  /\ LastLoad.outcome = "returned"
  /\ mgr.results # EmptyMap

-----------------------------------------------------------------------------
(* The isPreloading flag *)

\* call c was turned away by the re-entrancy guard and is on its way out
TurnedAway(c) == calls[c].dsRet = "already"

\* C27: isPreloading is true exactly while one accepted preloadAllData() is
\* between its start and its end; the step that ends a preload, with success
\* or with a throw, resets it; a call turned away as re-entrant never changes
\* it; so it is false whenever no preload is in progress.
C27_FlagFollowsTheAcceptedPreload ==
  /\ [](ds.isPreloading <=> Cardinality({c \in Calls : PreloadInProgress(c)}) = 1)
  /\ [][\A c \in Calls :
          /\ (PreloadInProgress(c)
                /\ calls'[c].pc \notin {"pl_catalog", "pl_gotcat", "pl_results", "pl_store"})
               => /\ ~ds'.isPreloading
                  /\ reloads' = reloads => calls'[c].dsRet \in {"success", "threw"}
          /\ (calls[c].pc = "pl_call" /\ calls'[c].pc = "pl_catalog")
               => ~ds.isPreloading /\ ds'.isPreloading
          /\ (calls[c].pc \in {"pl_call", "pl_rejected"} /\ calls'[c].dsRet = "already")
               => ds'.isPreloading = ds.isPreloading
          /\ (TurnedAway(c) /\ calls'[c] # calls[c] /\ reloads' = reloads)
               => ds'.isPreloading = ds.isPreloading
       ]_vars

\* the call that was turned away has loaded the catalogue on its own and the
\* accepted preload is still waiting for results, with the flag set
C27_Witness ==
  \E c, d \in Calls :
    /\ TurnedAway(c)
    /\ calls[c].pc \notin {"pl_rejected", "fb_catalog", "fb_gotcat"}
    /\ calls[d].pc = "pl_results"
    /\ ds.isPreloading
    /\ mgr.isInitialized

-----------------------------------------------------------------------------
(* Overlapping initialize() and refresh() calls *)

\* part_001:598-600
isReady(m) == m.isInitialized /\ ~m.isLoading

\* call c is inside initialize() or refresh(): isLoading was set by it and
\* its finally block has not run
InProgress(c) ==
  calls[c].pc \in {"in_restore", "in_adopt", "pl_call", "pl_rejected", "pl_catalog",
                   "pl_gotcat", "pl_results", "pl_store", "fb_catalog", "fb_gotcat"}

\* the calls whose fetchAllCompetitions() is waiting for its two requests
CatalogueFetches == {c \in Calls : calls[c].pc \in {"pl_catalog", "fb_catalog"}}

\* C28: while an initialize() or refresh() call is in progress, isLoading is
\* true and isReady() is false, and at most one catalogue fetch is in flight.
C28_BusyWhileACallIsInProgress ==
  /\ (\E c \in Calls : InProgress(c)) => mgr.isLoading /\ ~isReady(mgr)
  /\ Cardinality(CatalogueFetches) <= 1

\* the manager reports ready while a preload is waiting for results
C28_ReadyDuringPreload ==
  \E c \in Calls :
    /\ calls[c].pc = "pl_results"
    /\ running = 0
    /\ isReady(mgr)

\* two catalogue fetches are in flight
C28_TwoCatalogueFetches ==
  /\ running = 0
  /\ Cardinality(CatalogueFetches) = 2

-----------------------------------------------------------------------------
(* The two TTL tests: loadFromLocalStorage and isCacheValid *)

\* C29: whenever loadFromLocalStorage() returns true, isCacheReady() is true
\* at the same instant, whatever the age of the stored copy, an age of exactly
\* the TTL included.
C29_RestoredImpliesReady ==
  [][\A c \in Calls :
       (RestoreStep(c) /\ RestoreStepTrue(c)) => isCacheReady(GLOBAL_CACHE', now')
    ]_vars

\* the same for a stored copy younger than the TTL
C29_HoldsBelowTheTTL ==
  [][\A c \in Calls :
       (/\ RestoreStep(c)
        /\ RestoreStepTrue(c)
        /\ now' - GLOBAL_CACHE'.lastUpdated # CACHE_TIMEOUT)
         => isCacheReady(GLOBAL_CACHE', now')
    ]_vars

\* a restore has just returned true for a copy whose age is the TTL, and the
\* snapshot it produced is not ready
C29_RestoredAtTheTTL ==
  \E c \in Calls :
    /\ ReadsRestored(c)
    /\ now - GLOBAL_CACHE.lastUpdated = CACHE_TIMEOUT
    /\ GLOBAL_CACHE.isLoaded
    /\ ~isCacheReady(GLOBAL_CACHE, now)

-----------------------------------------------------------------------------
(* The results mapping of the snapshot and the listing of the manager *)

\* the listed competitions whose id is no key of the results mapping
Unserved ==
  {i \in 1..Len(getAllCompetitions(mgr)) :
     getAllCompetitions(mgr)[i].id \notin DOMAIN GLOBAL_CACHE.results}

\* C30: once a preload has succeeded or a persisted one was restored and the
\* manager has adopted the snapshot, the results mapping has an entry for
\* every competition getAllCompetitions() returns, so that loadResults(id)
\* finds the results of every listed competition in the snapshot.
C30_EveryListedCompetitionHasResults ==
  (GLOBAL_CACHE.isLoaded /\ Adopted(GLOBAL_CACHE)) => Unserved = {}

\* the manager lists a competition under its trimmed id while the snapshot
\* it adopted keeps the results under the id as the sheet has it
C30_ListedWithoutResults ==
  /\ GLOBAL_CACHE.isLoaded
  /\ Adopted(GLOBAL_CACHE)
  /\ \E i \in Unserved :
       \E k \in DOMAIN GLOBAL_CACHE.results :
         k # getAllCompetitions(mgr)[i].id /\ Trim(k) = getAllCompetitions(mgr)[i].id

====
